---- MODULE Spec2Model ----
(***************************************************************************)
(* HC-05 automated bonding sketch.  Two versions of the sketch live in the *)
(* repository: the one that keeps the protocol phase in the PROGRAMSTATE   *)
(* enum (src/unnamed/part_000) and the one that keeps it in one boolean    *)
(* flag per phase (src/HC-05_Automate_Communication.ino).  A behaviour of  *)
(* Spec is a run of either sketch; the variable sketch says which.         *)
(*                                                                         *)
(* One step of the model is one pass of loop() (timer update, boot check,  *)
(* console read, radio read), or one act of the environment: the radio     *)
(* module puts a line into the Serial1 receive buffer.  What a pass reads  *)
(* from the console and from the STATE pin are inputs of the pass.         *)
(*                                                                         *)
(* A write of devices[] past the end of the table is undefined behaviour.  *)
(* The model takes the step that makes it, with each place the write can   *)
(* land on, sets oob, and follows the run no further.                      *)
(*                                                                         *)
(* Text is modelled character by character: a String is a sequence of      *)
(* one-character strings, and the Arduino String functions the sketch      *)
(* calls are the operators below.                                          *)
(***************************************************************************)
EXTENDS Integers, Sequences, FiniteSets, TLC

(***************************************************************************)
(* Bounds of the model.                                                    *)
(***************************************************************************)
\* Capacity of the devices table.  The sketch sets 15 (#define MAX_DEVICES);
\* the model scales the table down so that TLC can fill and overrun it.
MAX_DEVICES == 3
\* Lines the Serial1 receive buffer holds at once.
MaxBuf == 2
\* Timer callbacks that can be scheduled at once.
MaxTimers == 2

(***************************************************************************)
(* Program constants.                                                      *)
(***************************************************************************)
LOW == 0
HIGH == 1
AT_MODE == HIGH
COMMUNICATION_MODE == LOW
DISCONNECTED == 0
CONNECTED == 1
CONNECT_BOUND == 0
CONNECT_ANY == 1
\* int is 16 bits wide on the ATmega1284P.
IntBits == 16

(***************************************************************************)
(* Arduino String functions, as WString.cpp computes them.  Indices are    *)
(* 0-based as in C; position i of the String is element i+1 of the         *)
(* sequence.                                                               *)
(***************************************************************************)
startsWith(s, p) == Len(s) >= Len(p) /\ SubSeq(s, 1, Len(p)) = p

\* Index of the first occurrence of character ch, or -1.
indexOf(s, ch) ==
  IF \E i \in 1..Len(s) : s[i] = ch
  THEN (CHOOSE i \in 1..Len(s) : s[i] = ch /\ \A j \in 1..(i-1) : s[j] # ch) - 1
  ELSE -1

\* The arguments of substring are unsigned int: -1 converts to 65535.
ToUnsigned(i) == i % (2^IntBits)

\* substring(left, right): the characters at positions left..right-1; the
\* bounds are swapped when left > right, and right is clipped to the length.
substring2(s, left, right) ==
  LET l0 == ToUnsigned(left)
      r0 == ToUnsigned(right)
      l  == IF l0 > r0 THEN r0 ELSE l0
      r1 == IF l0 > r0 THEN l0 ELSE r0
      r  == IF r1 > Len(s) THEN Len(s) ELSE r1
  IN  IF l >= Len(s) THEN <<>> ELSE SubSeq(s, l + 1, r)

\* substring(beginIndex) is substring(beginIndex, length).
substring(s, left) == substring2(s, left, Len(s))

\* replace(find, replace) on single characters.
replace(s, a, b) == [i \in 1..Len(s) |-> IF s[i] = a THEN b ELSE s[i]]

isspace(c) == c \in {" ", "\t", "\n", "\r"}

\* trim(): leading and trailing whitespace removed.
trim(s) ==
  IF \A i \in 1..Len(s) : isspace(s[i]) THEN <<>>
  ELSE LET b == CHOOSE i \in 1..Len(s) :
                  ~isspace(s[i]) /\ \A j \in 1..(i-1) : isspace(s[j])
           e == CHOOSE i \in 1..Len(s) :
                  ~isspace(s[i]) /\ \A j \in (i+1)..Len(s) : isspace(s[j])
       IN  SubSeq(s, b, e)

\* replace(':', ',') that stops after the first ':'.
replaceFirst(s, a, b) ==
  [i \in 1..Len(s) |->
     IF s[i] = a /\ (\A j \in 1..(i-1) : s[j] # a) THEN b ELSE s[i]]
normalized_first(addr) == trim(replaceFirst(addr, ":", ","))

\* "addr.replace(':',','); addr.trim();": the form in which an address of
\* the module is kept and sent back to it.
normalized(addr) == trim(replace(addr, ":", ","))

Digits == <<"0", "1", "2", "3", "4", "5", "6", "7", "8", "9">>
isdigit(c) == \E d \in 1..10 : Digits[d] = c
DigitVal(c) == (CHOOSE d \in 1..10 : Digits[d] = c) - 1

RECURSIVE atolFrom(_, _, _)
\* The decimal value of the digits of s from position i (1-based) on, acc so far.
atolFrom(s, i, acc) ==
  IF i > Len(s) \/ ~isdigit(s[i]) THEN acc
  ELSE atolFrom(s, i + 1, acc * 10 + DigitVal(s[i]))

\* A value stored into an int: kept modulo 2^16, two's complement.
ToInt16(v) ==
  LET m == v % (2^IntBits)
  IN  IF m >= 2^(IntBits - 1) THEN m - 2^IntBits ELSE m

\* toInt() is atol(): leading whitespace skipped, an optional sign, then the
\* decimal digits up to the first other character; 0 when there is no digit.
\* The sketch stores the long result into an int.
toInt(s) ==
  LET first == IF \E i \in 1..Len(s) : ~isspace(s[i])
               THEN CHOOSE i \in 1..Len(s) :
                      ~isspace(s[i]) /\ \A j \in 1..(i-1) : isspace(s[j])
               ELSE Len(s) + 1
      neg   == first <= Len(s) /\ s[first] = "-"
      from  == IF first <= Len(s) /\ s[first] \in {"-", "+"} THEN first + 1 ELSE first
      v     == atolFrom(s, from, 0)
  IN  ToInt16(IF neg THEN 0 - v ELSE v)

(***************************************************************************)
(* Text the radio module and the console can deliver.                      *)
(***************************************************************************)
\* A byte the sketch calls junk: 0, or 127 and above.
JUNK == "<junk>"
isJunk(inc) == inc = JUNK

AddrA == <<"1","1",":","2","2",":","3","3",":","4","4",":","5","5",":","6","6">>
AddrB == <<"9","8",":","d","3",":","3","1">>
NameA == <<"G","P","S">>

TagADCN  == <<"+","A","D","C","N">>
TagMRAD  == <<"+","M","R","A","D">>
TagINQ   == <<"+","I","N","Q">>
TagRNAME == <<"+","R","N","A","M","E">>
TagOK    == <<"O","K">>
TagFAIL  == <<"F","A","I","L">>
TagERROR == <<"E","R","R","O","R">>

\* The module ends every line with CR LF.
Line(s) == s \o <<"\r", "\n">>

LineADCN0  == Line(TagADCN \o <<":", "0">>)
LineADCN2  == Line(TagADCN \o <<":", "2">>)
LineMRAD   == Line(TagMRAD \o <<":">> \o AddrA)
LineOK     == Line(TagOK)
LineFAIL   == Line(TagFAIL)
LineERR17  == Line(TagERROR \o <<":", "(", "1", "7", ")">>)
LineERR16  == Line(TagERROR \o <<":", "(", "1", "6", ")">>)
LineINQA   == Line(TagINQ \o <<":">> \o AddrA \o <<",", "0", ",", "0">>)
LineINQB   == Line(TagINQ \o <<":">> \o AddrB \o <<",", "0", ",", "0">>)
LineRNAME  == Line(TagRNAME \o <<":">> \o NameA)

\* Responses that carry their tag and lack its delimiters.
LineADCNbad == Line(TagADCN \o <<"2">>)
LineMRADbad == Line(TagMRAD)
LineINQbad  == Line(TagINQ)
BadLines == {LineADCNbad, LineMRADbad, LineINQbad}

\* OK behind one byte of line noise.
LineJunkOK == <<JUNK>> \o LineOK

InqLines == {LineINQA, LineINQB}
RadioLines ==
  {LineADCN0, LineADCN2, LineMRAD, LineOK, LineFAIL, LineERR17, LineERR16,
   LineRNAME, LineJunkOK}
    \cup BadLines
    \cup InqLines
\* Lines the module sends right behind another one: the OK that ends a
\* response, and the +INQ lines of one inquiry.
TrailLines == {LineOK} \cup InqLines

\* Console lines (the serial monitor sends LF only; the LF is consumed).
NoLine == <<>>
ConY == <<"Y">>
ConN == <<"N">>
ConOther == <<"A", "T">>
ConsoleLines == {ConY, ConN, ConOther}

\* What an out-of-bounds write of devices[] lands on: the String after the
\* table (currentDeviceAddr, declared next), the one after that, or memory
\* the sketch never reads.
Clobbers == {"none", "currentDeviceAddr", "currentDeviceName"}

(***************************************************************************)
(* State.                                                                  *)
(***************************************************************************)
VARIABLES
  sketch,               \* "enum" (part_000) or "flags" (.ino): which sketch runs
  PROGRAMSTATE,         \* part_000: the phase
  OLDPROGRAMSTATE,      \* part_000
  PROGRAMSTATECHANGED,  \* part_000
  FLAGS,                \* .ino: the phase flags that are true
  SETTINGHC05MODE,
  INITIALIZING,
  HC05_MODE,
  HC05_STATE,
  HC05_OLDSTATE,
  deviceCount,
  recentDeviceCount,
  currentDeviceIdx,
  currentCMODE,
  currentFunctionStep,
  devices,              \* the table, 0-based
  currentDeviceAddr,
  currentDeviceName,
  rxbuf,                \* Serial1 receive buffer: lines, each ending in LF
  timers,               \* callbacks of Set_HC05_MODE scheduled with t.after
  enPin,                \* level of HC05_EN_PIN (output)
  keyPin,               \* level of HC05_KEY_PIN (output)
  ledPin,               \* level of LED (output)
  oob,                  \* a write of devices[] has landed outside the table
  sent,                 \* a command function has printed to Serial1 since power-up
  call,                 \* a function of the sketch called on its own (see NoCall)
  owed,                 \* lines the radio module has yet to send (see Answer)
  twin,                 \* part_000 run side by side with the .ino (see NoTwin)
  hist                  \* what the latest step did (history, see NoHist)

vars ==
  << sketch, PROGRAMSTATE, OLDPROGRAMSTATE, PROGRAMSTATECHANGED, FLAGS,
     SETTINGHC05MODE, INITIALIZING, HC05_MODE, HC05_STATE, HC05_OLDSTATE,
     deviceCount, recentDeviceCount, currentDeviceIdx, currentCMODE,
     currentFunctionStep, devices, currentDeviceAddr, currentDeviceName,
     rxbuf, timers, enPin, keyPin, ledPin, oob, sent, call, owed, twin, hist >>

\* A call of one function on its own: the function, its argument and, once
\* it has returned, its result (a sequence of one element).  No function is called so in a run of Spec.
NoRet == <<>>
NoCall == [fn |-> "none", arg |-> <<>>, ret |-> NoRet]

\* History of one step: what a pass of loop() read and wrote.
\*   pass     the step was a pass of loop()
\*   wrote    commands the sketch's own functions printed to Serial1, in order
\*   fwd      the console line loop() forwarded to Serial1, or NoLine
\*   sampled  Check_HC05_STATE ran
\*   con      the console line read, or NoLine
\*   conAt    the phases active when the console line was handled
\*   idxAt    currentDeviceIdx when the console line was handled
\*   idxCon   currentDeviceIdx when the console section ended
\*   atCon    the phases active when the console section ended
\*   rx       the radio line handed to the response dispatch, or NoLine
\*   rxAt     the phases active when rx was dispatched
\*   rxFresh  part_000: PROGRAMSTATECHANGED when rx was dispatched
\*   rxBy     the phase whose branch of the dispatch took rx, or "none"
\*   flushed  the line flushOkString consumed, or NoLine
\*   fired    currentFunctionStep of the Set_HC05_MODE call t.update() made, or -1
\*   shown    the address (one element) of the device named in the latest
\*            "Would you like to connect to" prompt; Pass and RadioAnswers
\*            keep it from step to step
\*   unanswered  a command other than the baseline commands has been written
\*            and no line has been handed to the response dispatch since;
\*            Pass and RadioAnswers keep it from step to step
\*   overlap  the pass wrote such a command while unanswered was true
NoHist ==
  [ pass |-> FALSE, wrote |-> <<>>, fwd |-> NoLine, sampled |-> FALSE,
    con |-> NoLine, conAt |-> {}, idxAt |-> 0, idxCon |-> 0, atCon |-> {},
    rx |-> NoLine, rxAt |-> {}, rxFresh |-> FALSE, rxBy |-> "none",
    flushed |-> NoLine, fired |-> -1, trail |-> FALSE, err |-> "none",
    junk |-> FALSE, chatter |-> FALSE, shown |-> <<>>,
    unanswered |-> FALSE, overlap |-> FALSE ]

\* The state as one record, which the sketch's functions transform.
Cur ==
  [ sketch |-> sketch, PROGRAMSTATE |-> PROGRAMSTATE,
    OLDPROGRAMSTATE |-> OLDPROGRAMSTATE,
    PROGRAMSTATECHANGED |-> PROGRAMSTATECHANGED, FLAGS |-> FLAGS,
    SETTINGHC05MODE |-> SETTINGHC05MODE, INITIALIZING |-> INITIALIZING,
    HC05_MODE |-> HC05_MODE, HC05_STATE |-> HC05_STATE,
    HC05_OLDSTATE |-> HC05_OLDSTATE, deviceCount |-> deviceCount,
    recentDeviceCount |-> recentDeviceCount,
    currentDeviceIdx |-> currentDeviceIdx, currentCMODE |-> currentCMODE,
    currentFunctionStep |-> currentFunctionStep, devices |-> devices,
    currentDeviceAddr |-> currentDeviceAddr,
    currentDeviceName |-> currentDeviceName, rxbuf |-> rxbuf,
    timers |-> timers, enPin |-> enPin,
    keyPin |-> keyPin, ledPin |-> ledPin, oob |-> oob, sent |-> sent,
    hist |-> NoHist ]

\* The next state is r.
Becomes(r) ==
  /\ sketch' = r.sketch
  /\ PROGRAMSTATE' = r.PROGRAMSTATE
  /\ OLDPROGRAMSTATE' = r.OLDPROGRAMSTATE
  /\ PROGRAMSTATECHANGED' = r.PROGRAMSTATECHANGED
  /\ FLAGS' = r.FLAGS
  /\ SETTINGHC05MODE' = r.SETTINGHC05MODE
  /\ INITIALIZING' = r.INITIALIZING
  /\ HC05_MODE' = r.HC05_MODE
  /\ HC05_STATE' = r.HC05_STATE
  /\ HC05_OLDSTATE' = r.HC05_OLDSTATE
  /\ deviceCount' = r.deviceCount
  /\ recentDeviceCount' = r.recentDeviceCount
  /\ currentDeviceIdx' = r.currentDeviceIdx
  /\ currentCMODE' = r.currentCMODE
  /\ currentFunctionStep' = r.currentFunctionStep
  /\ devices' = r.devices
  /\ currentDeviceAddr' = r.currentDeviceAddr
  /\ currentDeviceName' = r.currentDeviceName
  /\ rxbuf' = r.rxbuf
  /\ timers' = r.timers
  /\ enPin' = r.enPin
  /\ keyPin' = r.keyPin
  /\ ledPin' = r.ledPin
  /\ oob' = r.oob
  /\ sent' = r.sent
  /\ call' = call
  /\ hist' = r.hist

\* The state is r (for the initial state).
Is(r) ==
  /\ sketch = r.sketch
  /\ PROGRAMSTATE = r.PROGRAMSTATE
  /\ OLDPROGRAMSTATE = r.OLDPROGRAMSTATE
  /\ PROGRAMSTATECHANGED = r.PROGRAMSTATECHANGED
  /\ FLAGS = r.FLAGS
  /\ SETTINGHC05MODE = r.SETTINGHC05MODE
  /\ INITIALIZING = r.INITIALIZING
  /\ HC05_MODE = r.HC05_MODE
  /\ HC05_STATE = r.HC05_STATE
  /\ HC05_OLDSTATE = r.HC05_OLDSTATE
  /\ deviceCount = r.deviceCount
  /\ recentDeviceCount = r.recentDeviceCount
  /\ currentDeviceIdx = r.currentDeviceIdx
  /\ currentCMODE = r.currentCMODE
  /\ currentFunctionStep = r.currentFunctionStep
  /\ devices = r.devices
  /\ currentDeviceAddr = r.currentDeviceAddr
  /\ currentDeviceName = r.currentDeviceName
  /\ rxbuf = r.rxbuf
  /\ timers = r.timers
  /\ enPin = r.enPin
  /\ keyPin = r.keyPin
  /\ ledPin = r.ledPin
  /\ oob = r.oob
  /\ sent = r.sent
  /\ hist = r.hist

\* The indices of the table.
Slots == 0..(MAX_DEVICES - 1)

\* The phases active in r: the enum's value, or the flags that are true.
Active(r) == IF r.sketch = "enum" THEN {r.PROGRAMSTATE} ELSE r.FLAGS

\* "PROGRAMSTATE = p;" in part_000, "p = true;" in the .ino.
enter(r, p) ==
  IF r.sketch = "enum" THEN [r EXCEPT !.PROGRAMSTATE = p]
  ELSE [r EXCEPT !.FLAGS = @ \cup {p}]

\* "p = false;" in the .ino; part_000 has no such statement.
leave(r, p) ==
  IF r.sketch = "enum" THEN r ELSE [r EXCEPT !.FLAGS = @ \ {p}]

\* Serial1.println(cmd + arg) by one of the sketch's command functions.
Cmd(c, a) == [cmd |-> c, arg |-> a]
println(r, c, a) ==
  [r EXCEPT !.hist.wrote = Append(@, Cmd(c, a)), !.sent = TRUE,
            !.hist.overlap = @ \/ (~r.INITIALIZING /\ r.hist.unanswered),
            !.hist.unanswered = IF r.INITIALIZING THEN @ ELSE TRUE]

\* t.after(ms, Set_HC05_MODE): one more callback scheduled.
after(r) == [r EXCEPT !.timers = IF @ < MaxTimers THEN @ + 1 ELSE @]

(***************************************************************************)
(* The mode controller.                                                    *)
(***************************************************************************)
\* One call of Set_HC05_MODE(): the step currentFunctionStep names.  Steps 0
\* to 2 pulse EN low, set KEY and raise EN again; step 3 ends the sequence in
\* communication mode and otherwise starts the baseline commands of steps 3
\* to 7; step 8 ends the sequence in AT mode.
Set_HC05_MODE(r) ==
  CASE r.currentFunctionStep = 0 ->
         LET a == IF r.sketch = "enum"
                  THEN [r EXCEPT !.SETTINGHC05MODE = TRUE] ELSE r
             b == IF a.HC05_MODE = AT_MODE THEN enter(a, "DO_ADCN") ELSE a
         IN  after([b EXCEPT !.enPin = LOW, !.currentFunctionStep = @ + 1])
    [] r.currentFunctionStep = 1 ->
         after([r EXCEPT !.keyPin = r.HC05_MODE, !.currentFunctionStep = @ + 1])
    [] r.currentFunctionStep = 2 ->
         after([r EXCEPT !.enPin = HIGH, !.currentFunctionStep = @ + 1])
    [] r.currentFunctionStep = 3 ->
         IF r.HC05_MODE = AT_MODE
         THEN after(println([r EXCEPT !.currentFunctionStep = @ + 1,
                                      !.INITIALIZING = TRUE],
                            "AT+ROLE=1", <<>>))
         ELSE [r EXCEPT !.currentFunctionStep = 0, !.SETTINGHC05MODE = FALSE]
    [] r.currentFunctionStep = 4 ->
         after(println([r EXCEPT !.currentFunctionStep = @ + 1],
                       "AT+CMODE=1", <<>>))
    [] r.currentFunctionStep = 5 ->
         after(println([r EXCEPT !.currentFunctionStep = @ + 1],
                       "AT+IPSCAN=1024,512,1024,512", <<>>))
    [] r.currentFunctionStep = 6 ->
         after(println([r EXCEPT !.currentFunctionStep = @ + 1],
                       "AT+INQM=1,15,12", <<>>))
    [] r.currentFunctionStep = 7 ->
         after(println([r EXCEPT !.currentFunctionStep = @ + 1],
                       "AT+PSWD=0000", <<>>))
    [] r.currentFunctionStep = 8 ->
         [r EXCEPT !.currentFunctionStep = 0, !.INITIALIZING = FALSE,
                   !.SETTINGHC05MODE = FALSE]
    [] OTHER -> r

\* "SETTINGHC05MODE = true;" which the .ino writes before each first call of
\* Set_HC05_MODE() (part_000 moved the statement into step 0).
startMode(r) ==
  IF r.sketch = "flags" THEN [r EXCEPT !.SETTINGHC05MODE = TRUE] ELSE r

\* A timer that keeps a callback scheduled after it has called it (t.every
\* for t.after).
update_every(r, due) ==
  IF due /\ r.timers > 0
  THEN Set_HC05_MODE([r EXCEPT !.hist.fired = r.currentFunctionStep])
  ELSE r

\* A timer that calls a due callback twice in a row.
update_twice(r, due) ==
  IF due /\ r.timers > 0
  THEN Set_HC05_MODE(Set_HC05_MODE([r EXCEPT !.timers = @ - 1,
                                            !.hist.fired = r.currentFunctionStep]))
  ELSE r

\* t.update(): a scheduled callback whose delay has elapsed (due) is called.
update(r, due) ==
  IF due /\ r.timers > 0
  THEN Set_HC05_MODE([r EXCEPT !.timers = @ - 1,
                               !.hist.fired = r.currentFunctionStep])
  ELSE r

\* Check_HC05_STATE(): state is the level digitalRead(HC05_STATE_PIN) gives;
\* on a change of level it is remembered and shown on the LED.  The level is
\* left in HC05_STATE, where the caller stores the return value.
Check_HC05_STATE(r, state) ==
  LET a == [r EXCEPT !.hist.sampled = TRUE, !.HC05_STATE = state]
  IN  IF state # r.HC05_OLDSTATE
      THEN [a EXCEPT !.HC05_OLDSTATE = state, !.ledPin = state]
      ELSE a

(***************************************************************************)
(* The command functions.                                                  *)
(***************************************************************************)
CountRecentAuthenticatedDevices(r) ==
  println(enter(r, "COUNTINGRECENTDEVICES"), "AT+ADCN", <<>>)

CheckMostRecentAuthenticatedDevice(r) ==
  println(enter(r, "COUNTEDRECENTDEVICES"), "AT+MRAD", <<>>)

SearchAuthenticatedDevice(r, addr) ==
  println(enter(r, "SEARCHAUTHENTICATEDDEVICE"), "AT+INIT", <<>>)

ConnectRecentAuthenticatedDevice(r, addr) ==
  println(enter(r, "CONNECTINGRECENTDEVICE"), "AT+LINK=", addr)

\* String(mode) for a mode of one decimal digit.
StringOfInt(n) == <<Digits[n + 1]>>

\* SetConnectionMode(mode) returns mode, and every caller stores the result
\* in currentCMODE.
SetConnectionMode(r, mode) ==
  [println(enter(r, "SETTINGCONNECTIONMODE"), "AT+CMODE=", StringOfInt(mode))
     EXCEPT !.currentCMODE = mode]

InitiateInquiry(r) ==
  println(enter(r, "INITIATINGINQUIRY"), "AT+INIT", <<>>)

InquireDevices(r) ==
  println(enter(r, "INQUIRINGDEVICES"), "AT+INQ", <<>>)

ConfrontUserWithDevice(r, devicexAddr) ==
  println(enter(r, "CONFRONTINGUSER"), "AT+RNAME ", devicexAddr)

SetBindAddress(r) ==
  println(enter(r, "SETTINGBINDADDRESS"), "AT+BIND=", r.currentDeviceAddr)

LinkToCurrentDevice(r, devicexAddr) ==
  println(enter(r, "CONNECTINGTODEVICE"), "AT+LINK=", devicexAddr)

\* flushOkString(): inc2 is a byte, so "inc2 != -1" is always true and the
\* function always reads on to the next LF: the line that is in the buffer
\* (or reaches it before the read times out) is consumed, whatever it is.
flushOkString(r) ==
  IF r.rxbuf # <<>>
  THEN [r EXCEPT !.rxbuf = Tail(@), !.hist.flushed = Head(r.rxbuf)]
  ELSE r

\* The flags resetAllVariables() clears in the .ino (all but CHECKSTATE).
ResetFlags ==
  { "DO_ADCN", "LISTENNMEA", "COUNTINGRECENTDEVICES", "COUNTEDRECENTDEVICES",
    "SEARCHAUTHENTICATEDDEVICE", "CONNECTINGRECENTDEVICE",
    "SETTINGCONNECTIONMODE", "INITIATINGINQUIRY", "INQUIRINGDEVICES",
    "CONFRONTINGUSER", "SETTINGBINDADDRESS", "CONNECTINGTODEVICE" }

resetAllVariables(r) ==
  [r EXCEPT !.SETTINGHC05MODE = FALSE,
            !.FLAGS = IF r.sketch = "flags" THEN @ \ ResetFlags ELSE @,
            !.INITIALIZING = FALSE,
            !.deviceCount = 0,
            !.recentDeviceCount = 0,
            !.currentDeviceIdx = 0,
            !.currentFunctionStep = 0,
            !.devices = [i \in Slots |-> <<>>],
            !.currentDeviceAddr = <<>>,
            !.currentDeviceName = <<>>]

(***************************************************************************)
(* The error table of part_000.                                            *)
(***************************************************************************)
ERRORMESSAGE ==
  << "Command Error/Invalid Command",
     "Results in default value",
     "PSKEY write error",
     "Device name is too long (>32 characters)",
     "No device name specified (0 length)",
     "Bluetooth address NAP is too long",
     "Bluetooth address UAP is too long",
     "Bluetooth address LAP is too long",
     "PIO map not specified (0 length)",
     "Invalid PIO port Number entered",
     "Device Class not specified (0 length)",
     "Device Class too long",
     "Inquire Access Code not Specified (0 length)",
     "Inquire Access Code too long",
     "Invalid Inquire Access Code entered",
     "Pairing Password not specified (0 length)",
     "Pairing Password too long (> 16 characters)",
     "Invalid Role entered",
     "Invalid Baud Rate entered",
     "Invalid Stop Bit entered",
     "Invalid Parity Bit entered",
     "No device in the Pairing List",
     "SPP not initialized",
     "SPP already initialized",
     "Invalid Inquiry Mode",
     "Inquiry Timeout occured",
     "Invalid/zero length address entered",
     "Invalid Security Mode entered",
     "Invalid Encryption Mode entered" >>

\* toCharArray(buf, bufsize): at most bufsize - 1 characters are copied, and
\* the terminating 0 takes the last place of the buffer.
toCharArray(s, bufsize) ==
  IF bufsize = 0 THEN <<>>
  ELSE SubSeq(s, 1, IF Len(s) < bufsize - 1 THEN Len(s) ELSE bufsize - 1)

HexDigits ==
  << "0", "1", "2", "3", "4", "5", "6", "7", "8", "9",
     "A", "B", "C", "D", "E", "F" >>
HexLower == << "a", "b", "c", "d", "e", "f" >>
isxdigit(c) ==
  (\E d \in 1..16 : HexDigits[d] = c) \/ (\E d \in 1..6 : HexLower[d] = c)
HexVal(c) ==
  IF \E d \in 1..16 : HexDigits[d] = c
  THEN (CHOOSE d \in 1..16 : HexDigits[d] = c) - 1
  ELSE (CHOOSE d \in 1..6 : HexLower[d] = c) + 9

RECURSIVE strtolFrom(_, _, _)
\* The value of the hexadecimal digits of s from position i (1-based) on.
strtolFrom(s, i, acc) ==
  IF i > Len(s) \/ ~isxdigit(s[i]) THEN acc
  ELSE strtolFrom(s, i + 1, acc * 16 + HexVal(s[i]))

\* strtol(s, NULL, 16): leading whitespace skipped, an optional sign, an
\* optional 0x, then the hexadecimal digits up to the first other character;
\* 0 when there is no digit.
strtol(s) ==
  LET first == IF \E i \in 1..Len(s) : ~isspace(s[i])
               THEN CHOOSE i \in 1..Len(s) :
                      ~isspace(s[i]) /\ \A j \in 1..(i-1) : isspace(s[j])
               ELSE Len(s) + 1
      neg   == first <= Len(s) /\ s[first] = "-"
      from  == IF first <= Len(s) /\ s[first] \in {"-", "+"} THEN first + 1 ELSE first
      pre   == /\ from + 2 <= Len(s) /\ s[from] = "0" /\ s[from + 1] \in {"x", "X"}
               /\ isxdigit(s[from + 2])
      v     == strtolFrom(s, IF pre THEN from + 2 ELSE from, 0)
  IN  IF neg THEN 0 - v ELSE v

\* What a read of ERRORMESSAGE outside the table gives.
OutsideTable == "<outside ERRORMESSAGE>"

\* getErrorMessage(errCodeStr): errCodeHex has room for one character and
\* the terminating 0.  The index read and the message returned.
getErrorMessage(errCodeStr) ==
  LET errCodeHex == toCharArray(errCodeStr, 2)
      errCode == strtol(errCodeHex)
  IN  [ index |-> errCode,
        message |-> IF errCode \in 0..28 THEN ERRORMESSAGE[errCode + 1]
                    ELSE OutsideTable ]

(***************************************************************************)
(* The response handlers: the body of each phase's branch of the response  *)
(* dispatch.  The two sketches share the bodies but for the flag           *)
(* assignments of the .ino (leave and startMode, which are no-ops in       *)
(* part_000) and the ERROR branch of INITIATINGINQUIRY.                    *)
(***************************************************************************)
\* devices[i]
devAt(r, i) == IF i \in Slots THEN r.devices[i] ELSE <<>>

onCOUNTINGRECENTDEVICES(r, incoming) ==
  IF startsWith(incoming, TagADCN)
  THEN LET deviceCountStr == substring(incoming, indexOf(incoming, ":") + 1)
           a == flushOkString([r EXCEPT !.recentDeviceCount = toInt(deviceCountStr)])
       IN  IF a.recentDeviceCount > 0
           THEN CheckMostRecentAuthenticatedDevice(a)
           ELSE SetConnectionMode(a, CONNECT_ANY)
  ELSE r

onCOUNTEDRECENTDEVICES(r, incoming) ==
  IF startsWith(incoming, TagMRAD)
  THEN LET a   == flushOkString(r)
           idx == indexOf(incoming, ":")
       IN  IF idx # -1
           THEN LET addr == normalized(substring(incoming, idx + 1))
                IN  SearchAuthenticatedDevice([a EXCEPT !.currentDeviceAddr = addr], addr)
           ELSE a
  ELSE r

onSEARCHAUTHENTICATEDDEVICE(r, incoming) ==
  IF startsWith(incoming, TagOK)
  THEN ConnectRecentAuthenticatedDevice(r, r.currentDeviceAddr)
  ELSE r

\* The branch as the sketch's documentation of the state machine would have
\* it were a failed link to start the inquiry anew with its first command.
onCONNECTINGRECENTDEVICE_init(r, incoming) ==
  IF startsWith(incoming, TagOK) THEN r
  ELSE IF startsWith(incoming, TagFAIL) THEN InitiateInquiry(r)
  ELSE r

onCONNECTINGRECENTDEVICE(r, incoming) ==
  IF startsWith(incoming, TagOK) THEN r
  ELSE IF startsWith(incoming, TagFAIL) THEN InquireDevices(r)
  ELSE r

onSETTINGCONNECTIONMODE(r, incoming) ==
  IF startsWith(incoming, TagOK)
  THEN IF r.currentCMODE = CONNECT_ANY THEN InitiateInquiry(r)
       ELSE IF r.currentCMODE = CONNECT_BOUND THEN SetBindAddress(r)
       ELSE r
  ELSE r

\* part_000 goes on only for error code 17 and prints the table's message
\* for any other code; the .ino goes on for every ERROR line.
onINITIATINGINQUIRY(r, incoming) ==
  IF startsWith(incoming, TagOK) THEN InquireDevices(r)
  ELSE IF startsWith(incoming, TagERROR)
  THEN IF r.sketch = "flags" THEN InquireDevices(r)
       ELSE LET idx1 == indexOf(incoming, "(")
                idx2 == indexOf(incoming, ")")
                errCode == substring2(incoming, idx1 + 1, idx2)
            IN  IF errCode = <<"1", "7">> THEN InquireDevices(r)
                ELSE [r EXCEPT !.hist.err = getErrorMessage(errCode).message]
  ELSE r

\* devices[deviceCount] = addr; deviceCount++;  The index is never compared
\* with MAX_DEVICES: past the table the write lands on what the build has
\* placed after it (clobber).
storeDevice(r, addr, clobber) ==
  LET i == r.deviceCount
      a == [r EXCEPT !.deviceCount = @ + 1,
                     !.devices = IF i \in Slots THEN [@ EXCEPT ![i] = addr] ELSE @]
  IN  IF i \in Slots THEN a
      ELSE [a EXCEPT !.oob = TRUE,
                     !.currentDeviceAddr =
                        IF clobber = "currentDeviceAddr" THEN addr ELSE @,
                     !.currentDeviceName =
                        IF clobber = "currentDeviceName" THEN addr ELSE @]

onINQUIRINGDEVICES(r, incoming, clobber) ==
  IF startsWith(incoming, TagOK)
  THEN LET a == [leave(r, "INQUIRINGDEVICES") EXCEPT !.currentDeviceIdx = 0]
       IN  IF a.deviceCount > 0
           THEN ConfrontUserWithDevice(
                  [a EXCEPT !.currentDeviceAddr = devAt(a, 0)], devAt(a, 0))
           ELSE InitiateInquiry(a)
  ELSE IF startsWith(incoming, TagINQ)
  THEN LET idx  == indexOf(incoming, ":")
           idx2 == indexOf(incoming, ",")
           addr == normalized(substring2(incoming, idx + 1, idx2))
       IN  storeDevice(r, addr, clobber)
  ELSE r

\* A name error that asks for the name of the same entry again.
nextDeviceOrInquiry_same(r) ==
  IF r.currentDeviceIdx < r.deviceCount
  THEN LET addr == devAt(r, r.currentDeviceIdx)
       IN  ConfrontUserWithDevice([r EXCEPT !.currentDeviceAddr = addr], addr)
  ELSE InitiateInquiry(leave(r, "CONFRONTINGUSER"))

\* The FAIL branch and the final else branch of CONFRONTINGUSER are the same
\* code: the next table entry, or a new inquiry when there is none.
nextDeviceOrInquiry(r) ==
  LET a == [r EXCEPT !.currentDeviceIdx = @ + 1]
  IN  IF a.currentDeviceIdx < a.deviceCount
      THEN LET addr == devAt(a, a.currentDeviceIdx)
           IN  ConfrontUserWithDevice([a EXCEPT !.currentDeviceAddr = addr], addr)
      ELSE InitiateInquiry(leave(a, "CONFRONTINGUSER"))

onCONFRONTINGUSER(r, incoming) ==
  IF startsWith(incoming, TagRNAME)
  THEN flushOkString(
         [r EXCEPT !.currentDeviceName =
                      substring(incoming, indexOf(incoming, ":") + 1),
                   !.hist.shown = <<r.currentDeviceAddr>>])
  ELSE nextDeviceOrInquiry(r)

onSETTINGBINDADDRESS(r, incoming) ==
  IF startsWith(incoming, TagOK)
  THEN LinkToCurrentDevice(r, r.currentDeviceAddr)
  ELSE r

\* The FAIL branch and the final else branch are the same code.
onCONNECTINGTODEVICE(r, incoming) ==
  IF startsWith(incoming, TagOK) THEN enter(r, "LISTENNMEA")
  ELSE Set_HC05_MODE(
         startMode([resetAllVariables(r) EXCEPT !.HC05_MODE = AT_MODE]))

\* The case labels of the first switch of part_000 (Phases), and of the
\* second (Stale).
Phases ==
  { "COUNTINGRECENTDEVICES", "COUNTEDRECENTDEVICES",
     "SEARCHAUTHENTICATEDDEVICE", "CONNECTINGRECENTDEVICE",
     "SETTINGCONNECTIONMODE", "INITIATINGINQUIRY", "INQUIRINGDEVICES",
     "CONFRONTINGUSER", "SETTINGBINDADDRESS", "CONNECTINGTODEVICE" }
Stale == {"INQUIRINGDEVICES", "CONFRONTINGUSER"}

\* part_000: the switch on PROGRAMSTATE, taken in full only in the pass in
\* which PROGRAMSTATECHANGED is true; in any other pass only the
\* INQUIRINGDEVICES and CONFRONTINGUSER cases exist.
dispatchEnum(q, incoming, clobber) ==
  LET st == q.PROGRAMSTATE
      r  == [q EXCEPT !.hist.rxBy =
                        IF st \in Stale \/ (q.PROGRAMSTATECHANGED /\ st \in Phases)
                        THEN st ELSE "none"]
  IN  IF r.PROGRAMSTATECHANGED
      THEN CASE st = "COUNTINGRECENTDEVICES" -> onCOUNTINGRECENTDEVICES(r, incoming)
             [] st = "COUNTEDRECENTDEVICES" -> onCOUNTEDRECENTDEVICES(r, incoming)
             [] st = "SEARCHAUTHENTICATEDDEVICE" -> onSEARCHAUTHENTICATEDDEVICE(r, incoming)
             [] st = "CONNECTINGRECENTDEVICE" -> onCONNECTINGRECENTDEVICE(r, incoming)
             [] st = "SETTINGCONNECTIONMODE" -> onSETTINGCONNECTIONMODE(r, incoming)
             [] st = "INITIATINGINQUIRY" -> onINITIATINGINQUIRY(r, incoming)
             [] st = "INQUIRINGDEVICES" -> onINQUIRINGDEVICES(r, incoming, clobber)
             [] st = "CONFRONTINGUSER" -> onCONFRONTINGUSER(r, incoming)
             [] st = "SETTINGBINDADDRESS" -> onSETTINGBINDADDRESS(r, incoming)
             [] st = "CONNECTINGTODEVICE" -> onCONNECTINGTODEVICE(r, incoming)
             [] OTHER -> r
      ELSE CASE st = "INQUIRINGDEVICES" -> onINQUIRINGDEVICES(r, incoming, clobber)
             [] st = "CONFRONTINGUSER" -> onCONFRONTINGUSER(r, incoming)
             [] OTHER -> r

\* The .ino: the if / else-if chain over the flags, first true flag wins.
\* All branches but INQUIRINGDEVICES and CONFRONTINGUSER clear their flag
\* before they look at the line.
dispatchFlags(r, incoming, clobber) ==
  LET on(p) == p \in r.FLAGS
      off(p) == [leave(r, p) EXCEPT !.hist.rxBy = p]
  IN  IF on("COUNTINGRECENTDEVICES")
      THEN onCOUNTINGRECENTDEVICES(off("COUNTINGRECENTDEVICES"), incoming)
      ELSE IF on("COUNTEDRECENTDEVICES")
      THEN onCOUNTEDRECENTDEVICES(off("COUNTEDRECENTDEVICES"), incoming)
      ELSE IF on("SEARCHAUTHENTICATEDDEVICE")
      THEN onSEARCHAUTHENTICATEDDEVICE(off("SEARCHAUTHENTICATEDDEVICE"), incoming)
      ELSE IF on("CONNECTINGRECENTDEVICE")
      THEN onCONNECTINGRECENTDEVICE(off("CONNECTINGRECENTDEVICE"), incoming)
      ELSE IF on("SETTINGCONNECTIONMODE")
      THEN onSETTINGCONNECTIONMODE(off("SETTINGCONNECTIONMODE"), incoming)
      ELSE IF on("INITIATINGINQUIRY")
      THEN onINITIATINGINQUIRY(off("INITIATINGINQUIRY"), incoming)
      ELSE IF on("INQUIRINGDEVICES")
      THEN onINQUIRINGDEVICES(
             [r EXCEPT !.hist.rxBy = "INQUIRINGDEVICES"], incoming, clobber)
      ELSE IF on("CONFRONTINGUSER")
      THEN onCONFRONTINGUSER([r EXCEPT !.hist.rxBy = "CONFRONTINGUSER"], incoming)
      ELSE IF on("SETTINGBINDADDRESS")
      THEN onSETTINGBINDADDRESS(off("SETTINGBINDADDRESS"), incoming)
      ELSE IF on("CONNECTINGTODEVICE")
      THEN onCONNECTINGTODEVICE(off("CONNECTINGTODEVICE"), incoming)
      ELSE r

(***************************************************************************)
(* loop()                                                                  *)
(***************************************************************************)
\* part_000 only: PROGRAMSTATECHANGED is true in the one pass that follows a
\* change of PROGRAMSTATE.
noteStateChange(r) ==
  IF r.sketch # "enum" THEN r
  ELSE IF r.PROGRAMSTATE # r.OLDPROGRAMSTATE
  THEN [r EXCEPT !.PROGRAMSTATECHANGED = TRUE, !.OLDPROGRAMSTATE = r.PROGRAMSTATE]
  ELSE [r EXCEPT !.PROGRAMSTATECHANGED = FALSE]

\* The phase of the boot-time link check: INITIALSTATECHECK in part_000, the
\* flag CHECKSTATE in the .ino.
CheckPhase(r) == IF r.sketch = "enum" THEN "INITIALSTATECHECK" ELSE "CHECKSTATE"

\* The boot check without the test of SETTINGHC05MODE in its second branch:
\* the bonding attempt would start while the mode controller still runs.
bootCheck_unguarded(r, pin) ==
  IF ~r.SETTINGHC05MODE /\ CheckPhase(r) \in Active(r)
  THEN LET a == Check_HC05_STATE(leave(r, "CHECKSTATE"), pin)
       IN  IF a.HC05_STATE = CONNECTED THEN enter(a, "LISTENNMEA")
           ELSE IF a.HC05_STATE = DISCONNECTED
           THEN Set_HC05_MODE(startMode([a EXCEPT !.HC05_MODE = AT_MODE]))
           ELSE a
  ELSE IF "DO_ADCN" \in Active(r)
  THEN CountRecentAuthenticatedDevices(leave(r, "DO_ADCN"))
  ELSE r

\* A link check that goes on in LISTENNMEA and starts the bonding attempt
\* anew when the STATE pin reads low.
bootCheck_resample(r, pin) ==
  IF ~r.SETTINGHC05MODE /\ (CheckPhase(r) \in Active(r) \/ "LISTENNMEA" \in Active(r))
  THEN LET a == Check_HC05_STATE(leave(leave(r, "CHECKSTATE"), "LISTENNMEA"), pin)
       IN  IF a.HC05_STATE = CONNECTED THEN enter(a, "LISTENNMEA")
           ELSE IF a.HC05_STATE = DISCONNECTED
           THEN Set_HC05_MODE(startMode([a EXCEPT !.HC05_MODE = AT_MODE]))
           ELSE a
  ELSE IF ~r.SETTINGHC05MODE /\ "DO_ADCN" \in Active(r)
  THEN CountRecentAuthenticatedDevices(leave(r, "DO_ADCN"))
  ELSE r

\* A boot check that flips KEY to AT mode at once, with no sequence.
bootCheck_flip(r, pin) ==
  IF ~r.SETTINGHC05MODE /\ CheckPhase(r) \in Active(r)
  THEN LET a == Check_HC05_STATE(leave(r, "CHECKSTATE"), pin)
       IN  IF a.HC05_STATE = CONNECTED THEN enter(a, "LISTENNMEA")
           ELSE IF a.HC05_STATE = DISCONNECTED
           THEN enter([a EXCEPT !.HC05_MODE = AT_MODE, !.keyPin = HIGH], "DO_ADCN")
           ELSE a
  ELSE IF ~r.SETTINGHC05MODE /\ "DO_ADCN" \in Active(r)
  THEN CountRecentAuthenticatedDevices(leave(r, "DO_ADCN"))
  ELSE r

\* The boot-time link check, and the start of the bonding attempt once the
\* mode controller has finished.
bootCheck(r, pin) ==
  IF ~r.SETTINGHC05MODE /\ CheckPhase(r) \in Active(r)
  THEN LET a == Check_HC05_STATE(leave(r, "CHECKSTATE"), pin)
       IN  IF a.HC05_STATE = CONNECTED THEN enter(a, "LISTENNMEA")
           ELSE IF a.HC05_STATE = DISCONNECTED
           THEN Set_HC05_MODE(startMode([a EXCEPT !.HC05_MODE = AT_MODE]))
           ELSE a
  ELSE IF ~r.SETTINGHC05MODE /\ "DO_ADCN" \in Active(r)
  THEN CountRecentAuthenticatedDevices(leave(r, "DO_ADCN"))
  ELSE r

RECURSIVE skipSame_past(_, _)
\* The skip without the test of the index against deviceCount: it runs on to
\* the first entry that differs, be it past the last one stored.
skipSame_past(r, idx) ==
  IF devAt(r, idx) = devAt(r, idx - 1) /\ idx < MAX_DEVICES
  THEN skipSame_past(r, idx + 1)
  ELSE idx

\* The skip without the comparison of neighbours: one entry is passed over
\* whatever it holds.
skipSame_blind(r, idx) == IF idx < r.deviceCount - 1 THEN idx + 1 ELSE idx

RECURSIVE skipSame(_, _)
\* while(devices[idx] == devices[idx-1]){ if(idx < deviceCount-1) idx++; else break; }
skipSame(r, idx) ==
  IF devAt(r, idx) = devAt(r, idx - 1) /\ idx < r.deviceCount - 1
  THEN skipSame(r, idx + 1)
  ELSE idx

\* The answer N that stays with the user when the table is exhausted.
answerNo_stay(r) ==
  LET a == [r EXCEPT !.currentDeviceIdx = @ + 1]
  IN  IF a.currentDeviceIdx < a.deviceCount
      THEN LET i == skipSame(a, a.currentDeviceIdx)
               b == [a EXCEPT !.currentDeviceIdx = i]
           IN  IF devAt(b, i) # devAt(b, i - 1)
               THEN ConfrontUserWithDevice(
                      [b EXCEPT !.currentDeviceAddr = devAt(b, i)], devAt(b, i))
               ELSE b
      ELSE a

\* The console answer N: on to the next table entry that differs from its
\* predecessor, or a new inquiry when there is none.
answerNo(r) ==
  LET a == [r EXCEPT !.currentDeviceIdx = @ + 1]
  IN  IF a.currentDeviceIdx < a.deviceCount
      THEN LET i == skipSame(a, a.currentDeviceIdx)
               b == [a EXCEPT !.currentDeviceIdx = i]
           IN  IF devAt(b, i) # devAt(b, i - 1)
               THEN ConfrontUserWithDevice(
                      [b EXCEPT !.currentDeviceAddr = devAt(b, i)], devAt(b, i))
               ELSE InitiateInquiry(leave(b, "CONFRONTINGUSER"))
      ELSE InitiateInquiry(leave(a, "CONFRONTINGUSER"))

\* The console answer Y.
answerYes(r) == SetConnectionMode(leave(r, "CONFRONTINGUSER"), CONNECT_BOUND)

\* A console that takes every answer but Y for N.
console_other(r, outgoing) ==
  LET a == IF outgoing = NoLine THEN r
           ELSE LET h == [r EXCEPT !.hist.con = outgoing, !.hist.conAt = Active(r),
                                   !.hist.idxAt = r.currentDeviceIdx]
                IN  IF "CONFRONTINGUSER" \in Active(h)
                    THEN IF startsWith(outgoing, ConY) THEN answerYes(h)
                         ELSE answerNo(h)
                    ELSE [h EXCEPT !.hist.fwd = outgoing]
  IN  [a EXCEPT !.hist.idxCon = a.currentDeviceIdx, !.hist.atCon = Active(a)]

\* A console that passes every line on to the radio module, answers too.
console_all(r, outgoing) ==
  LET a == IF outgoing = NoLine THEN r
           ELSE LET h == [r EXCEPT !.hist.con = outgoing, !.hist.conAt = Active(r),
                                   !.hist.idxAt = r.currentDeviceIdx,
                                   !.hist.fwd = outgoing]
                IN  IF "CONFRONTINGUSER" \in Active(h)
                    THEN IF startsWith(outgoing, ConY) THEN answerYes(h)
                         ELSE IF startsWith(outgoing, ConN) THEN answerNo(h)
                         ELSE h
                    ELSE h
  IN  [a EXCEPT !.hist.idxCon = a.currentDeviceIdx, !.hist.atCon = Active(a)]

\* A line from the console: an answer while the user is being confronted,
\* and otherwise text that is passed on to the radio module.
console(r, outgoing) ==
  LET a == IF outgoing = NoLine THEN r
           ELSE LET h == [r EXCEPT !.hist.con = outgoing, !.hist.conAt = Active(r),
                                   !.hist.idxAt = r.currentDeviceIdx]
                IN  IF "CONFRONTINGUSER" \in Active(h)
                    THEN IF startsWith(outgoing, ConY) THEN answerYes(h)
                         ELSE IF startsWith(outgoing, ConN) THEN answerNo(h)
                         ELSE h
                    ELSE [h EXCEPT !.hist.fwd = outgoing]
  IN  [a EXCEPT !.hist.idxCon = a.currentDeviceIdx, !.hist.atCon = Active(a)]

\* Serial1.read(): the first byte of the buffer is taken.
readByte(r) ==
  LET rest == Tail(Head(r.rxbuf))
  IN  [r EXCEPT !.rxbuf = IF rest = <<>> THEN Tail(@) ELSE <<rest>> \o Tail(@)]

\* char(inc) + Serial1.readStringUntil('\n'): the text up to the next LF,
\* which is consumed with it.  When the byte read first is itself the LF that
\* ended a line, the text of the following line is read on to it.
readLine(rxb) ==
  LET head == Head(rxb)
  IN  IF Len(head) > 1
      THEN [incoming |-> SubSeq(head, 1, Len(head) - 1), rest |-> Tail(rxb)]
      ELSE IF Len(rxb) > 1
      THEN [incoming |-> head \o SubSeq(rxb[2], 1, Len(rxb[2]) - 1),
            rest |-> Tail(Tail(rxb))]
      ELSE [incoming |-> head, rest |-> <<>>]

\* The response dispatch of the sketch that runs.
dispatch(r, incoming, clobber) ==
  LET h == [r EXCEPT !.hist.rx = incoming, !.hist.rxAt = Active(r),
                     !.hist.rxFresh = r.PROGRAMSTATECHANGED,
                     !.hist.unanswered = FALSE]
  IN  IF r.sketch = "enum" THEN dispatchEnum(h, incoming, clobber)
      ELSE dispatchFlags(h, incoming, clobber)

\* What loop() does with the Serial1 receive buffer: while the mode
\* controller runs, one byte per pass is thrown away (or echoed to the
\* console); otherwise a junk byte is dropped, and any other byte starts a
\* line that is read and dispatched.
radio(r, clobber) ==
  IF r.rxbuf = <<>> THEN r
  ELSE IF r.SETTINGHC05MODE /\ ~r.INITIALIZING THEN readByte(r)
  ELSE IF r.INITIALIZING THEN readByte(r)
  ELSE IF isJunk(Head(Head(r.rxbuf))) THEN readByte([r EXCEPT !.hist.junk = TRUE])
  ELSE LET rd == readLine(r.rxbuf)
       IN  dispatch([r EXCEPT !.rxbuf = rd.rest], rd.incoming, clobber)

\* One pass of loop(): due says whether a scheduled callback's delay has
\* elapsed, pin is the level of the STATE pin, outgoing the line the console
\* has ready (or NoLine), clobber where a write past the table lands.
loop(r, due, pin, outgoing, clobber) ==
  radio(console(bootCheck(noteStateChange(update(r, due)), pin), outgoing), clobber)

(***************************************************************************)
(* setup() and the initial state                                           *)
(***************************************************************************)
\* The globals as the C++ runtime initializes them, for sketch sk.
Boot(sk) ==
  [ sketch |-> sk, PROGRAMSTATE |-> "INITIALSTATECHECK",
    OLDPROGRAMSTATE |-> "INITIALSTATECHECK", PROGRAMSTATECHANGED |-> FALSE,
    FLAGS |-> IF sk = "flags" THEN {"CHECKSTATE"} ELSE {},
    SETTINGHC05MODE |-> FALSE, INITIALIZING |-> FALSE, HC05_MODE |-> 0,
    HC05_STATE |-> 0, HC05_OLDSTATE |-> 0, deviceCount |-> 0,
    recentDeviceCount |-> 0, currentDeviceIdx |-> 0, currentCMODE |-> 0,
    currentFunctionStep |-> 0, devices |-> [i \in Slots |-> <<>>],
    currentDeviceAddr |-> <<>>, currentDeviceName |-> <<>>, rxbuf |-> <<>>,
    timers |-> 0, enPin |-> LOW, keyPin |-> LOW,
    ledPin |-> LOW, oob |-> FALSE, sent |-> FALSE, hist |-> NoHist ]

\* setup() with the module started in AT mode.
setup_AT(r) ==
  Set_HC05_MODE(startMode(
    [r EXCEPT !.PROGRAMSTATE = "INITIALSTATECHECK", !.HC05_MODE = AT_MODE]))

\* setup(): the module is started in communication mode.
setup(r) ==
  Set_HC05_MODE(startMode(
    [r EXCEPT !.PROGRAMSTATE = "INITIALSTATECHECK", !.HC05_MODE = COMMUNICATION_MODE]))

\* The second sketch when only one runs: part_000 before setup().
NoTwin == Boot("enum")

Sketches == {"enum", "flags"}

Init ==
  /\ \E sk \in Sketches : Is([setup(Boot(sk)) EXCEPT !.hist = NoHist])
  /\ call = NoCall
  /\ owed = <<>>
  /\ twin = NoTwin

(***************************************************************************)
(* Actions                                                                 *)
(***************************************************************************)
\* The inputs of a pass that the pass can look at: whether a callback is due
\* when one is scheduled, the level of the STATE pin when the boot check is
\* pending, where the write lands when the table is full.
Dues == IF timers > 0 THEN BOOLEAN ELSE {FALSE}
Pins == IF CheckPhase(Cur) \in Active(Cur) THEN {DISCONNECTED, CONNECTED}
        ELSE {DISCONNECTED}
Lands == IF deviceCount >= MAX_DEVICES THEN Clobbers ELSE {"none"}

\* One pass of loop().
Loop ==
  /\ ~oob
  /\ \E due \in Dues, pin \in Pins, outgoing \in ConsoleLines \cup {NoLine},
        clobber \in Lands :
        Becomes(loop([Cur EXCEPT !.hist.pass = TRUE, !.hist.trail = hist.trail,
                                 !.hist.chatter = hist.chatter],
                     due, pin, outgoing, clobber))
  /\ owed' = owed
  /\ twin' = twin

\* The line the latest pass read is one of the module's answers that an OK
\* follows, and the pass found no line behind it.
InfoRead ==
  /\ hist.pass /\ hist.flushed = NoLine
  /\ \E tag \in {TagADCN, TagMRAD, TagRNAME} : startsWith(hist.rx, tag)

\* The radio module sends a line: any line when the buffer is empty, and a
\* trailing line behind one that has not been read yet.  A line without
\* its delimiters is the answer to the command of the phase that awaits its
\* tag, and the +INQ line of that kind the first line of an inquiry.
\* hist.trail marks the OK that comes after InfoRead, up to the pass that
\* finds it, and hist.chatter the line that arrives in the empty buffer
\* while the mode controller runs, up to the next line that arrives.
Awaited(line) ==
  /\ line = LineADCNbad => "COUNTINGRECENTDEVICES" \in Active(Cur)
  /\ line = LineMRADbad => "COUNTEDRECENTDEVICES" \in Active(Cur)
  /\ line = LineINQbad => "INQUIRINGDEVICES" \in Active(Cur) /\ deviceCount = 0

RadioSends ==
  /\ ~oob
  /\ Len(rxbuf) < MaxBuf
  /\ \E line \in RadioLines :
       /\ rxbuf # <<>> => line \in TrailLines
       /\ Awaited(line)
       /\ rxbuf' = Append(rxbuf, line)
       /\ hist' = [NoHist EXCEPT
                     !.trail = InfoRead /\ rxbuf = <<>> /\ line = LineOK,
                     !.chatter = SETTINGHC05MODE /\ rxbuf = <<>>]
  /\ UNCHANGED << sketch, PROGRAMSTATE, OLDPROGRAMSTATE, PROGRAMSTATECHANGED,
                  FLAGS, SETTINGHC05MODE, INITIALIZING, HC05_MODE, HC05_STATE,
                  HC05_OLDSTATE, deviceCount, recentDeviceCount,
                  currentDeviceIdx, currentCMODE, currentFunctionStep, devices,
                  currentDeviceAddr, currentDeviceName, timers, enPin, keyPin,
                  ledPin, oob, sent, call, owed, twin >>

Next == Loop \/ RadioSends

Spec == Init /\ [][Next]_vars

(***************************************************************************)
(* The functions of the sketch that compute a text from a text, each       *)
(* called on its own on every argument of a bounded set.                   *)
(***************************************************************************)
\* Longest error code, and the characters it is made of: the hexadecimal
\* digits, one lower-case digit, one character that is no digit.
MaxCode == 2
CodeChars == {HexDigits[d] : d \in 1..16} \cup {"f", "Z"}
Codes == UNION {[1..n -> CodeChars] : n \in 0..MaxCode}

\* Longest address, and the characters it is made of: a digit, the two
\* separators and a blank.
MaxAddr == 4
AddrChars == {"1", ":", ",", " "}
Addrs == UNION {[1..n -> AddrChars] : n \in 0..MaxAddr}

InitPure ==
  /\ Is([setup(Boot("enum")) EXCEPT !.hist = NoHist])
  /\ owed = <<>>
  /\ twin = NoTwin
  /\ \/ \E code \in Codes :
          call = [fn |-> "getErrorMessage", arg |-> code, ret |-> NoRet]
     \/ \E addr \in Addrs :
          call = [fn |-> "normalized", arg |-> addr, ret |-> NoRet]

\* The variables of the sketch, which a call on its own leaves alone.
Sketch ==
  << sketch, PROGRAMSTATE, OLDPROGRAMSTATE, PROGRAMSTATECHANGED, FLAGS,
     SETTINGHC05MODE, INITIALIZING, HC05_MODE, HC05_STATE, HC05_OLDSTATE,
     deviceCount, recentDeviceCount, currentDeviceIdx, currentCMODE,
     currentFunctionStep, devices, currentDeviceAddr, currentDeviceName,
     rxbuf, timers, enPin, keyPin, ledPin, oob, sent, hist >>

CallGetErrorMessage ==
  /\ call.fn = "getErrorMessage" /\ call.ret = NoRet
  /\ call' = [call EXCEPT !.ret = <<getErrorMessage(call.arg)>>]
  /\ UNCHANGED Sketch
  /\ UNCHANGED << owed, twin >>

\* The address normalized, and what it gives when it is normalized again
\* (an address stored in devices[] is sent back and may be read again).
CallNormalized ==
  /\ call.fn = "normalized" /\ call.ret = NoRet
  /\ call' = [call EXCEPT !.ret = << [ once |-> normalized(call.arg),
                                       twice |-> normalized(normalized(call.arg)) ] >>]
  /\ UNCHANGED Sketch
  /\ UNCHANGED << owed, twin >>

NextPure == CallGetErrorMessage \/ CallNormalized

SpecPure == InitPure /\ [][NextPure]_vars

(***************************************************************************)
(* The sketch with a radio module that answers every command with its      *)
(* success response, a module that has no paired device and one device in  *)
(* range, and an operator who answers Y.                                   *)
(***************************************************************************)
\* Most lines the module may have yet to send.
MaxOwed == 7

\* The lines that answer a command with success.
Answer(c) ==
  CASE c.cmd = "AT+ADCN" -> <<LineADCN0, LineOK>>
    [] c.cmd = "AT+INQ" -> <<LineINQA, LineOK>>
    [] c.cmd = "AT+RNAME " -> <<LineRNAME, LineOK>>
    [] OTHER -> <<LineOK>>

RECURSIVE Answers(_)
Answers(ws) == IF ws = <<>> THEN <<>> ELSE Answer(Head(ws)) \o Answers(Tail(ws))

\* One pass of loop() with the STATE pin low; the module owes the answers to
\* the commands the pass wrote.
Pass(due, outgoing) ==
  /\ ~oob
  /\ \E clobber \in Lands :
       \E a \in {update([Cur EXCEPT !.hist.pass = TRUE, !.hist.trail = hist.trail,
                                    !.hist.chatter = hist.chatter,
                                    !.hist.shown = hist.shown,
                                    !.hist.unanswered = hist.unanswered], due)} :
       \E b \in {bootCheck(noteStateChange(a), DISCONNECTED)} :
       \E c \in {console(b, outgoing)} :
       \E r \in {radio(c, clobber)} :
          /\ Len(owed) + Len(Answers(r.hist.wrote)) <= MaxOwed
          /\ Becomes(r)
          /\ owed' = owed \o Answers(r.hist.wrote)
  /\ twin' = twin

\* A pass in which the console has nothing and no callback is due.
Idles == Pass(FALSE, NoLine)

\* A pass in which the delay of the scheduled callback has elapsed.
TimerFires == timers > 0 /\ Pass(TRUE, NoLine)

\* A pass that finds the operator's Y, typed while the sketch confronts the
\* user with a device.
OperatorAnswers ==
  "CONFRONTINGUSER" \in Active(Cur) /\ \E due \in Dues : Pass(due, ConY)

\* The module sends the next line it owes.
RadioAnswers ==
  /\ ~oob
  /\ owed # <<>> /\ Len(rxbuf) < MaxBuf
  /\ rxbuf' = Append(rxbuf, Head(owed))
  /\ owed' = Tail(owed)
  /\ hist' = [NoHist EXCEPT
                !.trail = InfoRead /\ rxbuf = <<>> /\ Head(owed) = LineOK,
                !.chatter = SETTINGHC05MODE /\ rxbuf = <<>>,
                !.shown = hist.shown, !.unanswered = hist.unanswered]
  /\ UNCHANGED << sketch, PROGRAMSTATE, OLDPROGRAMSTATE, PROGRAMSTATECHANGED,
                  FLAGS, SETTINGHC05MODE, INITIALIZING, HC05_MODE, HC05_STATE,
                  HC05_OLDSTATE, deviceCount, recentDeviceCount,
                  currentDeviceIdx, currentCMODE, currentFunctionStep, devices,
                  currentDeviceAddr, currentDeviceName, timers, enPin, keyPin,
                  ledPin, oob, sent, call, twin >>

NextLive == Idles \/ TimerFires \/ OperatorAnswers \/ RadioAnswers

\* loop() runs for ever, a scheduled callback's delay elapses, the module
\* sends what it owes, and the operator answers.
SpecLive ==
  /\ Init /\ [][NextLive]_vars
  /\ WF_vars(Idles) /\ WF_vars(TimerFires)
  /\ WF_vars(RadioAnswers) /\ WF_vars(OperatorAnswers)

(***************************************************************************)
(* The two sketches side by side: the .ino in the variables, part_000 in   *)
(* twin, both given the same callbacks due, the same console line and the  *)
(* same radio lines in the same pass.  The module answers the commands of  *)
(* the .ino.  The run ends with the first pass in which the two have not   *)
(* written the same commands.                                              *)
(***************************************************************************)
InitBoth ==
  /\ Is([setup(Boot("flags")) EXCEPT !.hist = NoHist])
  /\ call = NoCall
  /\ owed = <<>>
  /\ twin = [setup(Boot("enum")) EXCEPT !.hist = NoHist]

\* One pass of loop() in each sketch.
BothPass ==
  /\ ~oob /\ ~twin.oob
  /\ hist.wrote = twin.hist.wrote
  /\ \E due \in IF timers > 0 \/ twin.timers > 0 THEN BOOLEAN ELSE {FALSE},
        outgoing \in IF "CONFRONTINGUSER" \in Active(Cur) \cup Active(twin)
                     THEN {NoLine, ConY} ELSE {NoLine},
        clobber \in Lands :
       \E r \in {loop([Cur EXCEPT !.hist.pass = TRUE], due, DISCONNECTED,
                      outgoing, clobber)} :
          /\ Len(owed) + Len(Answers(r.hist.wrote)) <= MaxOwed
          /\ Becomes(r)
          /\ owed' = owed \o Answers(r.hist.wrote)
          /\ twin' = loop([twin EXCEPT !.hist = [NoHist EXCEPT !.pass = TRUE]],
                          due, DISCONNECTED, outgoing, clobber)

\* The module sends the next line it owes; both sketches receive it.
BothReceive ==
  /\ ~oob /\ ~twin.oob
  /\ hist.wrote = twin.hist.wrote
  /\ owed # <<>> /\ Len(rxbuf) < MaxBuf /\ Len(twin.rxbuf) < MaxBuf
  /\ rxbuf' = Append(rxbuf, Head(owed))
  /\ twin' = [twin EXCEPT !.rxbuf = Append(@, Head(owed)), !.hist = NoHist]
  /\ owed' = Tail(owed)
  /\ hist' = NoHist
  /\ UNCHANGED << sketch, PROGRAMSTATE, OLDPROGRAMSTATE, PROGRAMSTATECHANGED,
                  FLAGS, SETTINGHC05MODE, INITIALIZING, HC05_MODE, HC05_STATE,
                  HC05_OLDSTATE, deviceCount, recentDeviceCount,
                  currentDeviceIdx, currentCMODE, currentFunctionStep, devices,
                  currentDeviceAddr, currentDeviceName, timers, enPin, keyPin,
                  ledPin, oob, sent, call >>

NextBoth == BothPass \/ BothReceive

SpecBoth == InitBoth /\ [][NextBoth]_vars

(***************************************************************************)
(* Properties.  They speak about the latest step through hist: what the    *)
(* pass read, in which phase, and what it wrote.                           *)
(***************************************************************************)
\* The String the sketch reads from a line: readStringUntil drops the LF.
Text(line) == SubSeq(line, 1, Len(line) - 1)

\* The pass read the line from the radio while phase p was active.
Read(line, p) == hist.rx = Text(line) /\ p \in hist.rxAt

\* The pass read the line and the branch of phase p took it.
Took(line, p) == Read(line, p) /\ hist.rxBy = p

\* Phase p is active.
On(p) == p \in Active(Cur)

\* The pass wrote command c, and how many times.
Wrote(c) == \E k \in DOMAIN hist.wrote : hist.wrote[k].cmd = c
Times(c) == Cardinality({k \in DOMAIN hist.wrote : hist.wrote[k].cmd = c})

\* The pass wrote something, and c with argument a last.
WroteLast(c, a) ==
  hist.wrote # <<>> /\ hist.wrote[Len(hist.wrote)] = Cmd(c, a)

\* The address of LineINQA and LineMRAD as the sketch stores it.
StoredA == <<"1","1",",","2","2",",","3","3",",","4","4",",","5","5",",","6","6">>

\* The table is empty.
NoDevices == \A i \in Slots : devices[i] = <<>>

\* C1: if the STATE pin reads CONNECTED at the boot check, LISTENNMEA is
\* entered and no command function has printed to Serial1 since power-up;
\* a mode sequence that ends in communication mode (at step 3, after EN is
\* raised and the settle delay) has written nothing.
C1_BootConnected ==
  /\ (hist.sampled /\ HC05_STATE = CONNECTED) =>
        (On("LISTENNMEA") /\ ~sent /\ ~SETTINGHC05MODE)
  /\ (hist.fired = 3 /\ ~INITIALIZING) => hist.wrote = <<>>

C1_Reached ==
  /\ hist.sampled /\ HC05_STATE = CONNECTED
  /\ hist.fired = 3
  /\ On("LISTENNMEA")

\* C2: if the STATE pin reads DISCONNECTED at the boot check, the mode
\* sequence is started towards AT mode and nothing is written yet; AT+ADCN is
\* written in exactly the passes in which the sequence completes (step 8),
\* once, before anything else, and COUNTINGRECENTDEVICES is entered with it.
C2_BootDisconnected ==
  /\ (hist.sampled /\ HC05_STATE = DISCONNECTED) =>
        /\ SETTINGHC05MODE /\ HC05_MODE = AT_MODE
        /\ currentFunctionStep = 1 /\ timers = 1
        /\ hist.wrote = <<>>
  /\ Wrote("AT+ADCN") <=> hist.fired = 8
  /\ Wrote("AT+ADCN") =>
        /\ Times("AT+ADCN") = 1
        /\ hist.wrote[1] = Cmd("AT+ADCN", <<>>)
        /\ "COUNTINGRECENTDEVICES" \in hist.atCon
        /\ ~SETTINGHC05MODE

C2_Reached ==
  /\ hist.fired = 8
  /\ Wrote("AT+ADCN")
  /\ On("COUNTINGRECENTDEVICES")

\* C3: a line +ADCN:<n> read in COUNTINGRECENTDEVICES sets the count to n;
\* with n = 0 AT+CMODE=1 is written and SETTINGCONNECTIONMODE entered with
\* target CONNECT_ANY, with n > 0 AT+MRAD is written and
\* COUNTEDRECENTDEVICES entered.
C3_CountRouted ==
  /\ Read(LineADCN0, "COUNTINGRECENTDEVICES") =>
        /\ recentDeviceCount = 0
        /\ WroteLast("AT+CMODE=", <<"1">>)
        /\ On("SETTINGCONNECTIONMODE") /\ currentCMODE = CONNECT_ANY
  /\ Read(LineADCN2, "COUNTINGRECENTDEVICES") =>
        /\ recentDeviceCount = 2
        /\ WroteLast("AT+MRAD", <<>>)
        /\ On("COUNTEDRECENTDEVICES")

C3_Reached ==
  /\ Took(LineADCN2, "COUNTINGRECENTDEVICES")
  /\ recentDeviceCount = 2
  /\ On("COUNTEDRECENTDEVICES")

\* C4: the responses +ADCN:0, OK, OK, +INQ:11:22:33:44:55:66,0,0, OK, read
\* one after the other from COUNTINGRECENTDEVICES on, lead through
\* SETTINGCONNECTIONMODE (CONNECT_ANY), INITIATINGINQUIRY and
\* INQUIRINGDEVICES to CONFRONTINGUSER with index 0, the stored address
\* 11,22,33,44,55,66 and AT+RNAME written for it.  Each conjunct is one
\* step of the scenario, from the state the step before it leaves.
C4_ScenarioB ==
  /\ Read(LineADCN0, "COUNTINGRECENTDEVICES") =>
        On("SETTINGCONNECTIONMODE") /\ currentCMODE = CONNECT_ANY
  /\ (Read(LineOK, "SETTINGCONNECTIONMODE") /\ currentCMODE = CONNECT_ANY) =>
        On("INITIATINGINQUIRY")
  /\ Read(LineOK, "INITIATINGINQUIRY") => On("INQUIRINGDEVICES")
  /\ (Read(LineINQA, "INQUIRINGDEVICES") /\ deviceCount = 1) =>
        On("INQUIRINGDEVICES") /\ devices[0] = StoredA
  /\ (Read(LineOK, "INQUIRINGDEVICES") /\ deviceCount = 1 /\ devices[0] = StoredA) =>
        /\ On("CONFRONTINGUSER") /\ currentDeviceIdx = 0
        /\ currentDeviceAddr = StoredA
        /\ WroteLast("AT+RNAME ", StoredA)

C4_Reached ==
  /\ Took(LineOK, "INQUIRINGDEVICES")
  /\ deviceCount = 1 /\ devices[0] = StoredA
  /\ On("CONFRONTINGUSER") /\ currentDeviceIdx = 0
  /\ WroteLast("AT+RNAME ", StoredA)

C6_KeepsSampling ==
  [][(Took(LineOK, "CONNECTINGRECENTDEVICE") /\ hist'.pass) => hist'.sampled]_vars

C6_Reached == Took(LineOK, "CONNECTINGRECENTDEVICE") /\ ~On("LISTENNMEA")

\* C7: Y on the console in CONFRONTINGUSER writes AT+CMODE=0 and enters
\* SETTINGCONNECTIONMODE with target CONNECT_BOUND; OK read there writes
\* AT+BIND=<addr> and enters SETTINGBINDADDRESS; OK read there writes
\* AT+LINK=<addr> and enters CONNECTINGTODEVICE; OK read there enters
\* LISTENNMEA; <addr> is devices[currentDeviceIdx].
C7_YesBindsAndLinks ==
  /\ (startsWith(hist.con, ConY) /\ "CONFRONTINGUSER" \in hist.conAt) =>
        /\ hist.wrote # <<>> /\ hist.wrote[1] = Cmd("AT+CMODE=", <<"0">>)
        /\ "SETTINGCONNECTIONMODE" \in hist.atCon
        /\ hist.idxCon = hist.idxAt
  /\ (Read(LineOK, "SETTINGCONNECTIONMODE") /\ currentCMODE = CONNECT_BOUND) =>
        /\ WroteLast("AT+BIND=", devAt(Cur, currentDeviceIdx))
        /\ On("SETTINGBINDADDRESS")
  /\ Read(LineOK, "SETTINGBINDADDRESS") =>
        /\ WroteLast("AT+LINK=", devAt(Cur, currentDeviceIdx))
        /\ On("CONNECTINGTODEVICE")
  /\ Read(LineOK, "CONNECTINGTODEVICE") => On("LISTENNMEA")

C7_Reached ==
  /\ Took(LineOK, "SETTINGBINDADDRESS")
  /\ WroteLast("AT+LINK=", devAt(Cur, currentDeviceIdx))
  /\ currentDeviceAddr # <<>>
  /\ On("CONNECTINGTODEVICE")

\* C8: a line that does not start with OK, read in CONNECTINGTODEVICE,
\* empties the table and clears deviceCount, currentDeviceIdx,
\* currentDeviceAddr and currentDeviceName, and restarts the mode sequence
\* towards AT mode, whose completion writes AT+ADCN.
C8_FailResets ==
  (/\ hist.rx # NoLine /\ ~startsWith(hist.rx, TagOK)
   /\ "CONNECTINGTODEVICE" \in hist.rxAt) =>
     /\ NoDevices /\ deviceCount = 0 /\ currentDeviceIdx = 0
     /\ currentDeviceAddr = <<>> /\ currentDeviceName = <<>>
     /\ SETTINGHC05MODE /\ HC05_MODE = AT_MODE /\ currentFunctionStep = 1
     /\ On("DO_ADCN")

C8_Reached ==
  /\ Took(LineFAIL, "CONNECTINGTODEVICE")
  /\ NoDevices /\ deviceCount = 0
  /\ SETTINGHC05MODE /\ On("DO_ADCN")

\* C9: deviceCount never exceeds MAX_DEVICES and no write of devices[] lands
\* outside the table.
C9_TableBounded == deviceCount <= MAX_DEVICES /\ ~oob

C9_Reached == Took(LineINQA, "INQUIRINGDEVICES") /\ deviceCount = MAX_DEVICES

\* C10: N on the console in CONFRONTINGUSER with index i leaves an index
\* greater than i; every index passed over holds the address of entry i; an
\* entry presented next lies in the table past i and its address is the one
\* AT+RNAME is written for.
C10_NoMovesForward ==
  (startsWith(hist.con, ConN) /\ "CONFRONTINGUSER" \in hist.conAt) =>
     /\ hist.idxCon > hist.idxAt
     /\ \A j \in (hist.idxAt + 1)..(hist.idxCon - 1) :
           devAt(Cur, j) = devAt(Cur, hist.idxAt)
     /\ "CONFRONTINGUSER" \in hist.atCon =>
           /\ hist.idxCon < deviceCount
           /\ hist.wrote # <<>>
           /\ hist.wrote[1] = Cmd("AT+RNAME ", devAt(Cur, hist.idxCon))

C10_Reached ==
  /\ startsWith(hist.con, ConN) /\ "CONFRONTINGUSER" \in hist.conAt
  /\ hist.idxCon > hist.idxAt + 1
  /\ "CONFRONTINGUSER" \in hist.atCon

\* The entries after index i all hold the address of entry i: the answer N
\* finds no further address to present.
NoneLeft(i) == \A j \in (i + 1)..(deviceCount - 1) : devAt(Cur, j) = devAt(Cur, i)

\* C11: when the table is exhausted in CONFRONTINGUSER, by the answer N with
\* no differing address left or by a line other than +RNAME read at the last
\* index, CONFRONTINGUSER is left, AT+INIT is written and INITIATINGINQUIRY
\* entered; OK taken in INITIATINGINQUIRY enters INQUIRINGDEVICES.
C11_ExhaustedRestarts ==
  /\ (/\ startsWith(hist.con, ConN) /\ "CONFRONTINGUSER" \in hist.conAt
      /\ NoneLeft(hist.idxAt)) =>
        /\ "CONFRONTINGUSER" \notin hist.atCon
        /\ "INITIATINGINQUIRY" \in hist.atCon
        /\ hist.wrote # <<>> /\ hist.wrote[1] = Cmd("AT+INIT", <<>>)
  /\ (/\ hist.rx # NoLine /\ ~startsWith(hist.rx, TagRNAME)
      /\ "CONFRONTINGUSER" \in hist.rxAt
      /\ hist.idxCon + 1 >= deviceCount) =>
        /\ ~On("CONFRONTINGUSER")
        /\ On("INITIATINGINQUIRY")
        /\ WroteLast("AT+INIT", <<>>)
  /\ Took(LineOK, "INITIATINGINQUIRY") => On("INQUIRINGDEVICES")

C11_Reached ==
  /\ startsWith(hist.con, ConN) /\ "CONFRONTINGUSER" \in hist.conAt
  /\ hist.idxAt > 0 /\ NoneLeft(hist.idxAt)
  /\ "INITIATINGINQUIRY" \in hist.atCon
  /\ hist.wrote # <<>> /\ hist.wrote[1] = Cmd("AT+INIT", <<>>)

\* The value of a code of two hexadecimal digits.
TwoHex(code) == 16 * HexVal(code[1]) + HexVal(code[2])
IsTwoHex(code) == Len(code) = 2 /\ isxdigit(code[1]) /\ isxdigit(code[2])

\* The call of fn has returned, and what it returned.
Returned(fn) == call.fn = fn /\ call.ret # NoRet
Ret == call.ret[1]

\* C12: for a code of two hexadecimal digits whose value is in 0..28,
\* getErrorMessage returns the entry of ERRORMESSAGE at that value; "11"
\* gives entry 17, "Invalid Role entered".
C12_IndexedByHexValue ==
  (Returned("getErrorMessage") /\ IsTwoHex(call.arg) /\ TwoHex(call.arg) \in 0..28) =>
     /\ Ret.index = TwoHex(call.arg)
     /\ Ret.message = ERRORMESSAGE[TwoHex(call.arg) + 1]
     /\ call.arg = <<"1", "1">> => Ret.message = "Invalid Role entered"

C12_Reached ==
  /\ Returned("getErrorMessage") /\ call.arg = <<"1", "1">>
  /\ Ret.message = "Results in default value"


\* The code is made of hexadecimal digits and its value is an index of the
\* table.
InTable(code) ==
  /\ Len(code) > 0 /\ \A i \in 1..Len(code) : isxdigit(code[i])
  /\ strtolFrom(code, 1, 0) \in 0..28
IsTableEntry(m) == \E i \in 1..29 : ERRORMESSAGE[i] = m

\* C13: a code that is not hexadecimal, or whose value is outside 0..28,
\* gives a parse error (a result that is no entry of the table), and
\* getErrorMessage never reads ERRORMESSAGE outside 0..28.
C13_OutOfRangeIsParseError ==
  Returned("getErrorMessage") =>
     /\ Ret.index \in 0..28
     /\ ~InTable(call.arg) => ~IsTableEntry(Ret.message)

C13_Reached ==
  /\ Returned("getErrorMessage") /\ call.arg = <<"1", "D">>
  /\ Ret.message = "Results in default value"


\* The bonding phases that are active.
Bonding == Active(Cur) \cap (Phases \cup {"LISTENNMEA"})

\* Bonding has begun: the module is in AT mode, the mode controller has
\* finished and the first command (AT+ADCN) has been sent.
BondingBegun == HC05_MODE = AT_MODE /\ ~SETTINGHC05MODE /\ ~On("DO_ADCN")

\* C14: once bonding has begun, exactly one bonding phase is active: never
\* two, never none.
C14_OnePhase == BondingBegun => Cardinality(Bonding) = 1

C14_Reached ==
  /\ sketch = "flags" /\ BondingBegun /\ Bonding = {}
  /\ Took(LineOK, "COUNTINGRECENTDEVICES")


\* C15: normalizing an address twice gives what normalizing it once gives.
C15_NormalizedIdempotent ==
  Returned("normalized") => Ret.twice = Ret.once

C15_Reached ==
  /\ Returned("normalized") /\ call.arg = <<" ", "1", ":", " ">>
  /\ Ret.once = <<"1", ",">> /\ Ret.twice = <<"1", ",">>


\* The bonding data of the sketch.
BondingData ==
  << deviceCount, recentDeviceCount, currentDeviceIdx, currentCMODE, devices,
     currentDeviceAddr, currentDeviceName >>

\* C16: a console line read while CONFRONTINGUSER is not active is written
\* to Serial1 as it is and changes neither the phase nor, in a pass that
\* reads nothing else, the bonding data; a console line read while
\* CONFRONTINGUSER is active is not written to Serial1.
C16_ConsoleForwarded ==
  [][ (hist'.pass /\ hist'.con # NoLine) =>
        IF "CONFRONTINGUSER" \in hist'.conAt
        THEN hist'.fwd = NoLine
        ELSE /\ hist'.fwd = hist'.con
             /\ hist'.atCon = hist'.conAt /\ hist'.idxCon = hist'.idxAt
             /\ (hist'.fired = -1 /\ ~hist'.sampled /\ hist'.rx = NoLine) =>
                  /\ hist'.wrote = <<>>
                  /\ UNCHANGED BondingData ]_vars

C16_Reached ==
  /\ hist.pass /\ hist.con = ConY /\ hist.fwd = ConY /\ On("CONNECTINGTODEVICE")
  /\ hist.fired = -1 /\ ~hist.sampled /\ hist.rx = NoLine


\* A pass that reads no line, no console line and no pin, and runs no
\* callback, while a phase awaits its response.
Waits ==
  /\ hist'.pass /\ hist'.rx = NoLine /\ hist'.con = NoLine
  /\ hist'.fired = -1 /\ ~hist'.sampled
  /\ Active(Cur) \cap Phases # {}

\* C17: a phase that awaits its response stays as it is through every pass
\* in which no line arrives, and a line read while phase p is active is
\* taken by the branch of p, however many passes went by since the command.
C17_NoTimeout ==
  [][ /\ Waits => Active(Cur)' = Active(Cur)
      /\ \A p \in Phases :
           (hist'.pass /\ hist'.rx # NoLine /\ p \in hist'.rxAt) => hist'.rxBy = p
    ]_vars

C17_Reached ==
  /\ sketch = "enum" /\ Read(LineADCN2, "COUNTINGRECENTDEVICES")
  /\ ~hist.rxFresh /\ hist.rxBy = "none" /\ On("COUNTINGRECENTDEVICES")
  /\ rxbuf = <<>>


\* C18: the OK that follows a +ADCN, +MRAD or +RNAME line is taken by no
\* branch of the response dispatch, also when it arrives after the pass
\* that read the line before it: it is not the response to the command
\* sent next, and in CONFRONTINGUSER it does not move currentDeviceIdx on.
C18_TrailingOkDrained ==
  (hist.pass /\ hist.trail /\ hist.rx = Text(LineOK)) =>
     /\ hist.rxBy = "none"
     /\ currentDeviceIdx = hist.idxCon

C18_Reached ==
  /\ hist.pass /\ hist.trail /\ Took(LineOK, "CONFRONTINGUSER")
  /\ currentDeviceIdx = hist.idxCon + 1


\* The address of a +INQ line as it is to be stored.
InqAddr(line) ==
  normalized(substring2(line, indexOf(line, ":") + 1, indexOf(line, ",")))

\* The pass read a +INQ line while INQUIRINGDEVICES was active.
ReadINQ == \E line \in InqLines : Read(line, "INQUIRINGDEVICES")

\* C19: in INQUIRINGDEVICES a +INQ line puts its normalized address in
\* devices[] right after the entries there are (the same address again
\* included), counts it, and leaves the phase as it is; OK sets
\* currentDeviceIdx to 0 and, with a device in the table, enters
\* CONFRONTINGUSER and writes AT+RNAME for devices[0], and otherwise writes
\* AT+INIT and enters INITIATINGINQUIRY.
C19_InquiryCollects ==
  [][ /\ ReadINQ' =>
           /\ deviceCount \in Slots /\ ~oob'
           /\ deviceCount' = deviceCount + 1
           /\ devices' = [devices EXCEPT ![deviceCount] = InqAddr(hist'.rx)]
           /\ On("INQUIRINGDEVICES")'
      /\ Read(LineOK, "INQUIRINGDEVICES")' =>
           /\ currentDeviceIdx' = 0 /\ ~On("INQUIRINGDEVICES")'
           /\ UNCHANGED << deviceCount, devices >>
           /\ IF deviceCount > 0
              THEN /\ On("CONFRONTINGUSER")' /\ currentDeviceAddr' = devices[0]
                   /\ WroteLast("AT+RNAME ", devices[0])'
              ELSE On("INITIATINGINQUIRY")' /\ WroteLast("AT+INIT", <<>>)'
    ]_vars

C19_Reached ==
  /\ Took(LineINQB, "INQUIRINGDEVICES") /\ oob
  /\ deviceCount = MAX_DEVICES + 1
  /\ \A i \in Slots : devices[i] = StoredA


\* C20: in INITIATINGINQUIRY, OK and ERROR:(17) write AT+INQ and enter
\* INQUIRINGDEVICES; ERROR with another code (16, "SPP not initialized")
\* has its message of ERRORMESSAGE printed and starts no inquiry.
C20_OnlyBenignErrorGoesOn ==
  /\ \A line \in {LineOK, LineERR17} :
       Read(line, "INITIATINGINQUIRY") =>
          On("INQUIRINGDEVICES") /\ WroteLast("AT+INQ", <<>>)
  /\ Read(LineERR16, "INITIATINGINQUIRY") =>
          /\ hist.err = "SPP not initialized"
          /\ ~Wrote("AT+INQ") /\ ~On("INQUIRINGDEVICES")

C20_Reached ==
  /\ sketch = "flags" /\ Took(LineERR16, "INITIATINGINQUIRY")
  /\ On("INQUIRINGDEVICES") /\ WroteLast("AT+INQ", <<>>)


\* The latest pass dropped a junk byte in front of a line that, without the
\* byte, the branch of the active phase would have taken in that pass.
JunkDropped ==
  /\ hist.pass /\ hist.junk /\ rxbuf # <<>>
  /\ Active(Cur) \cap Phases # {}
  /\ sketch = "enum" => (PROGRAMSTATECHANGED \/ PROGRAMSTATE \in Stale)

\* C21: a junk byte in front of a line costs that byte only: the pass that
\* reads it leaves the rest of the line in the buffer, and the pass that
\* reads the rest hands it to the branch of the phase that is active then.
C21_JunkTolerated ==
  [][ /\ (hist'.pass /\ hist'.junk) =>
           /\ hist'.rx = NoLine /\ rxbuf # <<>> /\ Head(rxbuf) = LineJunkOK
           /\ rxbuf' = <<LineOK>> \o Tail(rxbuf)
      /\ (JunkDropped /\ hist'.pass /\ hist'.rx # NoLine) =>
           /\ hist'.rx = Text(LineOK)
           /\ \A p \in Phases : p \in hist'.rxAt => hist'.rxBy = p
    ]_vars

C21_Reached ==
  /\ sketch = "enum" /\ JunkDropped /\ PROGRAMSTATECHANGED
  /\ On("SETTINGCONNECTIONMODE") /\ rxbuf = <<LineOK>>


\* A pass in which nothing but the radio section acts: no callback, no
\* console line, and the phase the line is read in is the one of before.
RadioOnly ==
  /\ hist'.pass /\ hist'.con = NoLine /\ hist'.fired = -1
  /\ hist'.rxAt = Active(Cur)

\* C22: +ADCN or +MRAD without ':' and +INQ without ':' and ',', read in
\* the phase that expects the tag, leave the phase as it is, write no
\* command and store nothing in devices[].
C22_MalformedOnlyLogged ==
  [][ \A line \in BadLines :
        (/\ RadioOnly /\ hist'.rx = Text(line)
         /\ (line = LineADCNbad => On("COUNTINGRECENTDEVICES"))
         /\ (line = LineMRADbad => On("COUNTEDRECENTDEVICES"))
         /\ (line = LineINQbad => On("INQUIRINGDEVICES"))) =>
           /\ Active(Cur)' = Active(Cur)
           /\ hist'.wrote = <<>>
           /\ UNCHANGED << deviceCount, devices >>
    ]_vars

C22_Reached ==
  /\ Took(LineADCNbad, "COUNTINGRECENTDEVICES")
  /\ recentDeviceCount = 0 /\ On("SETTINGCONNECTIONMODE")
  /\ WroteLast("AT+CMODE=", <<"1">>)


\* C23: a line that is no +RNAME line, read in CONFRONTINGUSER, moves
\* currentDeviceIdx on by one; with an entry at the new index AT+RNAME is
\* written for it and CONFRONTINGUSER stays, and otherwise AT+INIT is written
\* and INITIATINGINQUIRY entered.  A +RNAME line stores the name and leaves
\* the phase and the index as they are.
C23_NameErrorAdvances ==
  /\ (/\ hist.rx # NoLine /\ ~startsWith(hist.rx, TagRNAME)
      /\ "CONFRONTINGUSER" \in hist.rxAt) =>
        /\ currentDeviceIdx = hist.idxCon + 1
        /\ IF currentDeviceIdx < deviceCount
           THEN /\ On("CONFRONTINGUSER")
                /\ currentDeviceAddr = devices[currentDeviceIdx]
                /\ WroteLast("AT+RNAME ", devices[currentDeviceIdx])
           ELSE /\ On("INITIATINGINQUIRY") /\ ~On("CONFRONTINGUSER")
                /\ WroteLast("AT+INIT", <<>>)
  /\ Read(LineRNAME, "CONFRONTINGUSER") =>
        /\ currentDeviceName = NameA \o <<"\r">>
        /\ On("CONFRONTINGUSER") /\ currentDeviceIdx = hist.idxCon
        /\ ~WroteLast("AT+INIT", <<>>)

C23_Reached ==
  /\ Took(LineFAIL, "CONFRONTINGUSER") /\ hist.idxCon = 0
  /\ currentDeviceIdx = 1 /\ deviceCount = 2 /\ On("CONFRONTINGUSER")
  /\ WroteLast("AT+RNAME ", devices[1]) /\ devices[1] # devices[0]


\* C24: +MRAD with an address, read in COUNTEDRECENTDEVICES, writes AT+INIT
\* and enters SEARCHAUTHENTICATEDDEVICE with the normalized address in
\* currentDeviceAddr; OK read there writes AT+LINK= with that address and
\* enters CONNECTINGRECENTDEVICE.
C24_RememberedPath ==
  /\ Read(LineMRAD, "COUNTEDRECENTDEVICES") =>
        /\ On("SEARCHAUTHENTICATEDDEVICE") /\ WroteLast("AT+INIT", <<>>)
        /\ currentDeviceAddr = StoredA
  /\ (Read(LineOK, "SEARCHAUTHENTICATEDDEVICE") /\ currentDeviceAddr = StoredA) =>
        /\ On("CONNECTINGRECENTDEVICE")
        /\ WroteLast("AT+LINK=", StoredA)

C24_Reached ==
  /\ sketch = "enum" /\ Read(LineMRAD, "COUNTEDRECENTDEVICES")
  /\ hist.rxBy = "none" /\ On("COUNTEDRECENTDEVICES") /\ hist.wrote = <<>>
  /\ currentDeviceAddr = <<>>


\* The baseline configuration, in the order of the steps 3..7 of
\* Set_HC05_MODE().
Baseline ==
  << "AT+ROLE=1", "AT+CMODE=1", "AT+IPSCAN=1024,512,1024,512",
     "AT+INQM=1,15,12", "AT+PSWD=0000" >>

\* C25: the k-th baseline command is written by the callback that finds the
\* step counter at 2 + k, alone and by no other code, with EN and KEY high
\* (steps 1 and 2 done), and the counter goes on to the next step; past
\* step 1 the counter moves in callbacks only, one step at a time, and back
\* to the start from steps 3 and 8 only; AT+ADCN is written only when the
\* sequence is over.
C25_BaselineInOrder ==
  [][ hist'.pass =>
        /\ \A k \in 1..5 :
             /\ (hist'.fired = 2 + k /\ HC05_MODE = AT_MODE) =>
                  /\ hist'.wrote = << Cmd(Baseline[k], <<>>) >>
                  /\ enPin = HIGH /\ keyPin = HIGH
                  /\ currentFunctionStep' = 3 + k
             /\ (\E i \in DOMAIN hist'.wrote : hist'.wrote[i].cmd = Baseline[k]) =>
                  hist'.fired = 2 + k
        /\ \/ currentFunctionStep' \in {currentFunctionStep, currentFunctionStep + 1}
           \/ currentFunctionStep' \in {0, 1} /\ currentFunctionStep \in {3, 8}
        /\ (currentFunctionStep' = currentFunctionStep + 1 /\ currentFunctionStep >= 1) =>
             hist'.fired = currentFunctionStep
        /\ (\E i \in DOMAIN hist'.wrote : hist'.wrote[i].cmd = "AT+ADCN") =>
             /\ currentFunctionStep' = 0 /\ ~SETTINGHC05MODE'
             /\ hist'.fired \in {8, -1}
    ]_vars

C25_Reached ==
  /\ hist.pass /\ hist.fired = 7 /\ hist.wrote = << Cmd("AT+PSWD=0000", <<>>) >>
  /\ currentFunctionStep = 8 /\ enPin = HIGH /\ keyPin = HIGH


\* C26: a sequence starts by pulling EN low; KEY is written by the callback
\* of step 1 only, to the mode asked for and with EN low before and after;
\* the callback of step 2 raises EN; nothing is written to the module in a
\* pass that leaves the sequence at step 1, 2 or 3, that is before the
\* callback that follows the settle delay.
C26_FullCycle ==
  [][ hist'.pass =>
        /\ (currentFunctionStep' = 1 /\ currentFunctionStep # 1) => enPin' = LOW
        /\ hist'.fired = 1 =>
             enPin = LOW /\ enPin' = LOW /\ keyPin' = HC05_MODE
        /\ keyPin' # keyPin => hist'.fired = 1
        /\ hist'.fired = 2 =>
             enPin' = HIGH /\ keyPin' = HC05_MODE /\ currentFunctionStep' = 3
        /\ enPin' # enPin => (hist'.fired = 2 \/ currentFunctionStep' = 1)
        /\ hist'.wrote # <<>> =>
             /\ currentFunctionStep' \notin {1, 2, 3}
             /\ enPin' = HIGH /\ keyPin' = HC05_MODE'
    ]_vars

C26_Reached ==
  /\ hist.pass /\ hist.fired = 3 /\ HC05_MODE = AT_MODE /\ keyPin = HIGH
  /\ enPin = HIGH /\ Wrote("AT+ROLE=1")


\* C27: a line that arrives while the mode controller runs is taken by no
\* branch of the response dispatch, and a pass that begins and ends within
\* one sequence of the mode controller reads no line at all and leaves the
\* phase and the bonding data as they are.
C27_ChatterDiscarded ==
  [][ hist'.pass =>
        /\ hist'.chatter => hist'.rxBy = "none"
        /\ (/\ SETTINGHC05MODE /\ SETTINGHC05MODE'
            /\ currentFunctionStep' >= currentFunctionStep) =>
             /\ hist'.rx = NoLine /\ hist'.rxBy = "none"
             /\ Active(Cur)' = Active(Cur)
             /\ UNCHANGED BondingData
    ]_vars

C27_Reached ==
  /\ hist.pass /\ hist.chatter /\ hist.fired = 8
  /\ Took(LineOK, "COUNTINGRECENTDEVICES") /\ Bonding = {}


\* C28: never more than one callback of Set_HC05_MODE is scheduled; one is
\* scheduled exactly while the step counter is in 1..8, so that a sequence
\* starts (step 0) with none pending; the counter stays within 0..8.
C28_OneSequence ==
  /\ timers \in {0, 1}
  /\ currentFunctionStep \in 0..8
  /\ timers = 1 <=> currentFunctionStep \in 1..8
  /\ (hist.pass /\ hist.fired # -1) => hist.fired \in 0..8

C28_Reached ==
  /\ Took(LineFAIL, "CONNECTINGTODEVICE") /\ timers = 1
  /\ currentFunctionStep = 1 /\ SETTINGHC05MODE /\ HC05_MODE = AT_MODE


\* C29: a pass that begins in LISTENNMEA ends in it, whatever it reads from
\* the module or the console and whichever callback is due: no branch of
\* the response dispatch takes the line and no command is written.
C29_ListeningTerminal ==
  [][ (On("LISTENNMEA") /\ hist'.pass) =>
        /\ Active(Cur)' = Active(Cur)
        /\ hist'.wrote = <<>> /\ hist'.rxBy = "none"
        /\ UNCHANGED BondingData
    ]_vars

C29_Reached ==
  /\ On("LISTENNMEA") /\ hist.pass /\ hist.rx = Text(LineFAIL)
  /\ hist.rxAt = Active(Cur) /\ hist.con = ConN /\ sent


\* The line is the response that moves phase p on.
Success(p, rx) ==
  IF p = "COUNTEDRECENTDEVICES"
  THEN startsWith(rx, TagMRAD) /\ indexOf(rx, ":") # -1
  ELSE startsWith(rx, <<"O", "K">>)

Stalling == {"COUNTEDRECENTDEVICES", "SEARCHAUTHENTICATEDDEVICE", "SETTINGBINDADDRESS"}

\* C30: a line read in COUNTEDRECENTDEVICES, SEARCHAUTHENTICATEDDEVICE or
\* SETTINGBINDADDRESS that is not the phase's success response leaves the
\* phase active, writes no command and changes neither devices[], the
\* counts, the candidate index nor currentDeviceAddr.
C30_OtherLineOnlyLogged ==
  [][ \A p \in Stalling : \A line \in RadioLines :
        (/\ RadioOnly /\ On(p) /\ hist'.rx = Text(line)
         /\ ~Success(p, Text(line))) =>
           /\ Active(Cur)' = Active(Cur)
           /\ hist'.wrote = <<>>
           /\ UNCHANGED BondingData
    ]_vars

C30_Reached ==
  /\ sketch = "flags" /\ Took(LineFAIL, "SEARCHAUTHENTICATEDDEVICE")
  /\ Bonding = {} /\ hist.wrote = <<>> /\ currentDeviceAddr = StoredA


\* C31: with the module answering every command with success, the callbacks
\* fired and the prompt answered with Y, the sketch reaches LISTENNMEA.
C31_ReachesListening == <>On("LISTENNMEA")

C31_Reached ==
  /\ sketch = "enum" /\ Read(LineADCN0, "COUNTINGRECENTDEVICES")
  /\ hist.rxBy = "none" /\ On("COUNTINGRECENTDEVICES")
  /\ rxbuf = <<>> /\ owed = <<LineOK>> /\ timers = 0


\* The console answer Y was taken in the latest pass.
YesTaken ==
  hist.pass /\ startsWith(hist.con, ConY) /\ "CONFRONTINGUSER" \in hist.conAt

\* C32: the answer Y is taken for the device named in the latest prompt, and
\* AT+BIND and the AT+LINK that follows it carry that device's address.
C32_YesForShownPeer ==
  /\ YesTaken => hist.shown = <<currentDeviceAddr>>
  /\ \A k \in DOMAIN hist.wrote :
        (\/ hist.wrote[k].cmd = "AT+BIND="
         \/ hist.wrote[k].cmd = "AT+LINK=" /\ hist.rxBy = "SETTINGBINDADDRESS") =>
           hist.shown = <<hist.wrote[k].arg>>

C32_Reached ==
  /\ YesTaken /\ hist.shown = <<>> /\ currentDeviceAddr = StoredA
  /\ On("SETTINGCONNECTIONMODE") /\ WroteLast("AT+CMODE=", <<"0">>)


\* The console answer N was taken in the latest pass.
NoTaken ==
  hist.pass /\ startsWith(hist.con, ConN) /\ "CONFRONTINGUSER" \in hist.conAt

\* C33: in CONFRONTINGUSER currentDeviceIdx is the index of an entry that has
\* been stored and currentDeviceAddr is that entry; the answer N moves the
\* index past the last entry stored only by its one increment, after which
\* the table is not read.
C33_CandidateInTable ==
  /\ On("CONFRONTINGUSER") =>
        /\ 0 <= currentDeviceIdx /\ currentDeviceIdx < deviceCount
        /\ currentDeviceAddr = devAt(Cur, currentDeviceIdx)
  /\ NoTaken =>
        /\ hist.idxCon <= deviceCount
        /\ hist.idxCon = deviceCount => hist.idxCon = hist.idxAt + 1
        /\ "CONFRONTINGUSER" \in hist.atCon => hist.idxCon < deviceCount

C33_Reached ==
  /\ NoTaken /\ On("CONFRONTINGUSER") /\ hist.idxAt = 0
  /\ currentDeviceIdx = 2 /\ deviceCount = 3
  /\ currentDeviceAddr = devAt(Cur, 2) /\ currentDeviceAddr # devAt(Cur, 0)


\* C34: the pass that writes AT+INQ and enters INQUIRINGDEVICES leaves the
\* table empty: the inquiry starts with no device stored.
C34_InquiryStartsEmpty ==
  (hist.pass /\ Wrote("AT+INQ") /\ On("INQUIRINGDEVICES")) =>
     /\ deviceCount = 0
     /\ \A i \in Slots : devAt(Cur, i) = <<>>

C34_Reached ==
  /\ Took(LineOK, "INITIATINGINQUIRY") /\ WroteLast("AT+INQ", <<>>)
  /\ On("INQUIRINGDEVICES") /\ deviceCount = 1 /\ devAt(Cur, 0) = StoredA
  /\ currentDeviceIdx = 1


\* C35: no pass writes a command of the bonding attempt while the one
\* written before it has had no line handed to the response dispatch.
C35_HalfDuplex == hist.pass => ~hist.overlap

C35_Reached ==
  /\ hist.pass /\ hist.overlap /\ startsWith(hist.con, ConY)
  /\ WroteLast("AT+CMODE=", <<"0">>) /\ hist.rx = NoLine
  /\ LineRNAME \in {(rxbuf \o owed)[k] : k \in 1..(Len(rxbuf) + Len(owed))}


\* A console line that starts with neither Y nor N was read in CONFRONTINGUSER.
OtherAnswer ==
  /\ hist'.pass /\ hist'.con # NoLine /\ "CONFRONTINGUSER" \in hist'.conAt
  /\ ~startsWith(hist'.con, ConY) /\ ~startsWith(hist'.con, ConN)

\* C36: a console line read in CONFRONTINGUSER that starts with neither Y
\* nor N is not written to Serial1 and leaves the phase and the index as
\* they are; in a pass that reads no radio line and runs no callback, no
\* command is written and the phase and the bonding data are unchanged.
C36_OtherAnswerIgnored ==
  [][ OtherAnswer =>
        /\ hist'.fwd = NoLine
        /\ hist'.atCon = hist'.conAt /\ hist'.idxCon = hist'.idxAt
        /\ (hist'.fired = -1 /\ hist'.rx = NoLine) =>
              /\ hist'.wrote = <<>>
              /\ Active(Cur)' = Active(Cur)
              /\ UNCHANGED BondingData ]_vars

C36_Reached ==
  /\ hist.pass /\ hist.con = ConOther /\ "CONFRONTINGUSER" \in hist.conAt
  /\ hist.rx = NoLine /\ hist.fired = -1 /\ On("CONFRONTINGUSER")
  /\ currentDeviceIdx = 1 /\ currentDeviceName = NameA \o <<"\r">>


\* C37: given the same inputs in the same passes, the .ino and part_000
\* write the same commands to Serial1 in every pass.
C37_SameCommands == hist.wrote = twin.hist.wrote

C37_Reached ==
  /\ hist.pass /\ Took(LineADCN0, "COUNTINGRECENTDEVICES")
  /\ hist.wrote = <<Cmd("AT+CMODE=", <<"1">>)>>
  /\ twin.hist.rx = Text(LineADCN0) /\ twin.hist.rxBy = "none"
  /\ twin.hist.wrote = <<>> /\ twin.rxbuf = <<>>
  /\ twin.PROGRAMSTATE = "COUNTINGRECENTDEVICES" /\ ~twin.PROGRAMSTATECHANGED
====
